---- MODULE Spec2Model ----
(***************************************************************************)
(* Verification model of the privacy_circuits crates: the byte-level       *)
(* schema records (membership v0/v1/v2, continuity v1/v2, unlinkability    *)
(* v2), their validation into field-level instances, the arithmetic        *)
(* circuits' constraint synthesis, and the prove / verify orchestration.   *)
(*                                                                         *)
(* Field elements of BN254's scalar field are modelled as terms: a term is *)
(* a sequence of integers in a prefix code, so that two terms are equal    *)
(* exactly when they were built the same way:                              *)
(*    <<0, n>>                      the element Fr::from(n)                *)
(*    <<2, k>>                      the element a 32-byte ASCII constant   *)
(*                                  number k reduces to                    *)
(*    <<1, m>> \o t1 \o ... \o tm   the Poseidon hash of t1 .. tm          *)
(* Poseidon (ark_sponge) is therefore collision-free in the model.         *)
(*                                                                         *)
(* A byte string is [len, wrap, val]: len bytes whose big-endian integer   *)
(* is wrap * modulus + (canonical integer of val).  Decoding reduces       *)
(* modulo the field order, i.e. forgets wrap; encoding writes wrap = 0.    *)
(***************************************************************************)
EXTENDS Integers, Sequences, FiniteSets, TLC

VARIABLES pc, stmt, record, result, circuit, cs, pk, proof, vk, verifier_inputs, verified,
          argv, files, exit

vars == <<pc, stmt, record, result, circuit, cs, pk, proof, vk, verifier_inputs, verified,
          argv, files, exit>>

\* The state of a command-line run: its arguments, the files it finds and
\* how it ended.
cli == <<argv, files, exit>>

(***************************************************************************)
(* Bounds of the model.                                                    *)
(***************************************************************************)
\* Longest Merkle path drawn as an input.
MaxDepth == 2
\* Largest multiple of the field modulus added to a canonical 32-byte
\* encoding (5 for BN254: floor((2^256 - 1) / r)).
MaxWrap == 1

(***************************************************************************)
(* Program constants.                                                      *)
(***************************************************************************)
DOMAIN_COMMITMENT == 1
DOMAIN_LEAF == 2
DOMAIN_NODE == 3
FIELD_BYTES == 32
MERKLE_DEPTH == 1
MEMBERSHIP_INSTANCE_VERSION_V1 == 1
MEMBERSHIP_INSTANCE_VERSION_V2 == 2
MEMBERSHIP_STATEMENT_TYPE == 1
MEMBERSHIP_STATEMENT_VERSION_V2 == 2
CONTINUITY_INSTANCE_VERSION_V1 == 1
CONTINUITY_INSTANCE_VERSION_V2 == 2
CONTINUITY_STATEMENT_TYPE == 3
CONTINUITY_STATEMENT_VERSION_V2 == 2
UNLINKABILITY_INSTANCE_VERSION_V2 == 2
UNLINKABILITY_STATEMENT_TYPE == 2
UNLINKABILITY_STATEMENT_VERSION_V2 == 2

(***************************************************************************)
(* Field elements and byte strings.                                        *)
(***************************************************************************)
\* Fr::from(n) for a small unsigned integer n.
FrFrom(n) == <<0, n>>

\* The field element a 32-byte ASCII constant reduces to; k names the constant.
FrOfLabel(k) == <<2, k>>

\* A 32-byte array holding wrap * modulus + val.
Bytes32(wrap, val) == [len |-> FIELD_BYTES, wrap |-> wrap, val |-> val]

\* Fr::from_be_bytes_mod_order: the big-endian integer reduced modulo the order.
from_be_bytes_mod_order(bytes) == bytes.val

Ok(v) == [ok |-> TRUE, val |-> v]
Err(msg) == [ok |-> FALSE, err |-> msg]

\* A faulty decoder: no upper bound on the length.
fr_from_bytes_unbounded(bytes) ==
  IF bytes.len = 0 THEN Err("empty field bytes")
  ELSE Ok(from_be_bytes_mod_order(bytes))

\* membership::fr_from_bytes (variable-length input).
fr_from_bytes(bytes) ==
  IF bytes.len = 0 THEN Err("empty field bytes")
  ELSE IF bytes.len > FIELD_BYTES THEN Err("oversized field bytes")
  ELSE Ok(from_be_bytes_mod_order(bytes))

\* continuity::fr_from_fixed_bytes / unlinkability::fr_from_fixed_bytes.
fr_from_fixed_bytes(bytes) ==
  IF bytes.len = 0 THEN Err("empty field bytes")
  ELSE Ok(from_be_bytes_mod_order(bytes))

\* A faulty encoder: the canonical big-endian bytes without the padding.
fr_to_fixed_bytes_unpadded(value) ==
  [len |-> FIELD_BYTES - 1, wrap |-> 0, val |-> value]

\* membership::fr_to_fixed_bytes: canonical big-endian, left-padded to 32 bytes.
fr_to_fixed_bytes(value) == Bytes32(0, value)

\* The 32-byte domain separators and default contexts.  Each is an ASCII
\* string whose integer lies between r and 2r, so wrap = 1.
MEMBERSHIP_V2_DOMAIN_SEP == Bytes32(1, FrOfLabel(1))
CONTINUITY_V1_DOMAIN_SEP == Bytes32(1, FrOfLabel(2))
CONTINUITY_V2_DOMAIN_SEP == Bytes32(1, FrOfLabel(3))
UNLINKABILITY_V2_DOMAIN_SEP == Bytes32(1, FrOfLabel(4))
MEMBERSHIP_V2_DEFAULT_CTX_HASH == Bytes32(1, FrOfLabel(5))
CONTINUITY_V2_DEFAULT_CTX_HASH == Bytes32(1, FrOfLabel(6))
UNLINKABILITY_V2_DEFAULT_CTX_HASH == Bytes32(1, FrOfLabel(7))

membership_v2_domain_sep_fr == from_be_bytes_mod_order(MEMBERSHIP_V2_DOMAIN_SEP)
continuity_domain_sep_fr == from_be_bytes_mod_order(CONTINUITY_V1_DOMAIN_SEP)
continuity_domain_sep_v2_fr == from_be_bytes_mod_order(CONTINUITY_V2_DOMAIN_SEP)
unlinkability_domain_sep_v2_fr == from_be_bytes_mod_order(UNLINKABILITY_V2_DOMAIN_SEP)

(***************************************************************************)
(* Poseidon and the domain-tagged hashes.                                  *)
(***************************************************************************)
RECURSIVE Flatten(_)
Flatten(terms) ==
  IF terms = <<>> THEN <<>> ELSE Head(terms) \o Flatten(Tail(terms))

\* sponge.absorb(inputs); sponge.squeeze_field_elements(1)[0]
poseidon_hash_native(inputs) == <<1, Len(inputs)>> \o Flatten(inputs)

\* PoseidonSpongeVar: absorb(inputs), squeeze one element, inside the circuit.
poseidon_hash_var(inputs) == <<1, Len(inputs)>> \o Flatten(inputs)

\* A faulty commitment: the blinding is left out of the sponge.
commitment_hash_without_blinding(identity, blinding) ==
  poseidon_hash_native(<<FrFrom(DOMAIN_COMMITMENT), identity>>)

commitment_hash(identity, blinding) ==
  poseidon_hash_native(<<FrFrom(DOMAIN_COMMITMENT), identity, blinding>>)

leaf_hash(commitment) ==
  poseidon_hash_native(<<FrFrom(DOMAIN_LEAF), commitment, FrFrom(0)>>)

\* A faulty node hash: the children are absorbed right first.
node_hash_right_first(left, right) ==
  poseidon_hash_native(<<FrFrom(DOMAIN_NODE), right, left>>)

node_hash(left, right) ==
  poseidon_hash_native(<<FrFrom(DOMAIN_NODE), left, right>>)

poseidon_hash_leaf(leaf) ==
  poseidon_hash_native(<<FrFrom(DOMAIN_LEAF), leaf, FrFrom(0)>>)

poseidon_hash_node(left, right) ==
  poseidon_hash_native(<<FrFrom(DOMAIN_NODE), left, right>>)

poseidon_hash_leaf_v2(domain_sep, ctx_hash, commitment) ==
  poseidon_hash_native(<<domain_sep, ctx_hash, commitment>>)

commitment_hash_v2(id, r, ctx_hash) ==
  poseidon_hash_native(<<FrFrom(1), id, r, ctx_hash>>)

\* A faulty tag: the context hash is left out of the sponge.
tag_hash_without_ctx(domain_sep, ctx_hash, commitment) ==
  poseidon_hash_native(<<domain_sep, commitment>>)

tag_hash(domain_sep, ctx_hash, commitment) ==
  poseidon_hash_native(<<domain_sep, ctx_hash, commitment>>)

(***************************************************************************)
(* Continuity schema (continuity/src/schema.rs).                           *)
(***************************************************************************)
continuity_ensure_version(version) == version = CONTINUITY_INSTANCE_VERSION_V1

continuity_ensure_domain_sep(value) == value = CONTINUITY_V1_DOMAIN_SEP

continuity_ensure_version_v2(version) == version = CONTINUITY_INSTANCE_VERSION_V2

continuity_ensure_statement_type_version(statement_type, statement_version) ==
  /\ statement_type = CONTINUITY_STATEMENT_TYPE
  /\ statement_version = CONTINUITY_STATEMENT_VERSION_V2

\* A faulty check: the v1 separator passes as well.
continuity_ensure_domain_sep_v2_either(value) ==
  value \in {CONTINUITY_V1_DOMAIN_SEP, CONTINUITY_V2_DOMAIN_SEP}

continuity_ensure_domain_sep_v2(value) == value = CONTINUITY_V2_DOMAIN_SEP

\* A faulty into_instance: c2_hash is never compared with its commitment.
ContinuityInstanceV1_into_instance_c1_only(self) ==
  IF ~continuity_ensure_version(self.schema_version)
    THEN Err("instance.schema_version: schema_version mismatch")
  ELSE IF ~continuity_ensure_domain_sep(self.domain_sep)
    THEN Err("instance.domain_sep: domain_sep mismatch")
  ELSE
    LET id == fr_from_fixed_bytes(self.id)
        r1 == fr_from_fixed_bytes(self.r1)
        r2 == fr_from_fixed_bytes(self.r2)
        c1_hash == fr_from_fixed_bytes(self.c1_hash)
        c2_hash == fr_from_fixed_bytes(self.c2_hash)
        domain_sep == fr_from_fixed_bytes(self.domain_sep)
    IN IF commitment_hash(id.val, r1.val) # c1_hash.val
         THEN Err("c1_hash does not match commitment hash")
       ELSE Ok([public_inputs |-> [c1_hash |-> c1_hash.val,
                                   c2_hash |-> c2_hash.val,
                                   domain_sep |-> domain_sep.val],
                witness |-> [id |-> id.val, r1 |-> r1.val, r2 |-> r2.val]])

\* ContinuityInstanceV1::into_instance
ContinuityInstanceV1_into_instance(self) ==
  IF ~continuity_ensure_version(self.schema_version)
    THEN Err("instance.schema_version: schema_version mismatch")
  ELSE IF ~continuity_ensure_domain_sep(self.domain_sep)
    THEN Err("instance.domain_sep: domain_sep mismatch")
  ELSE
    LET id == fr_from_fixed_bytes(self.id)
        r1 == fr_from_fixed_bytes(self.r1)
        r2 == fr_from_fixed_bytes(self.r2)
        c1_hash == fr_from_fixed_bytes(self.c1_hash)
        c2_hash == fr_from_fixed_bytes(self.c2_hash)
    IN IF ~id.ok THEN id
       ELSE IF ~r1.ok THEN r1
       ELSE IF ~r2.ok THEN r2
       ELSE IF ~c1_hash.ok THEN c1_hash
       ELSE IF ~c2_hash.ok THEN c2_hash
       ELSE IF commitment_hash(id.val, r1.val) # c1_hash.val
         THEN Err("c1_hash does not match commitment hash")
       ELSE IF commitment_hash(id.val, r2.val) # c2_hash.val
         THEN Err("c2_hash does not match commitment hash")
       ELSE LET domain_sep == fr_from_fixed_bytes(self.domain_sep)
            IN IF ~domain_sep.ok THEN domain_sep
               ELSE Ok([public_inputs |-> [c1_hash |-> c1_hash.val,
                                           c2_hash |-> c2_hash.val,
                                           domain_sep |-> domain_sep.val],
                        witness |-> [id |-> id.val, r1 |-> r1.val, r2 |-> r2.val]])

\* ContinuityPublicInputsV1::into_public_inputs
ContinuityPublicInputsV1_into_public_inputs(self) ==
  IF ~continuity_ensure_version(self.schema_version)
    THEN Err("public_inputs.schema_version: schema_version mismatch")
  ELSE IF ~continuity_ensure_domain_sep(self.domain_sep)
    THEN Err("public_inputs.domain_sep: domain_sep mismatch")
  ELSE
    LET c1_hash == fr_from_fixed_bytes(self.c1_hash)
        c2_hash == fr_from_fixed_bytes(self.c2_hash)
        domain_sep == fr_from_fixed_bytes(self.domain_sep)
    IN IF ~c1_hash.ok THEN c1_hash
       ELSE IF ~c2_hash.ok THEN c2_hash
       ELSE IF ~domain_sep.ok THEN domain_sep
       ELSE Ok([c1_hash |-> c1_hash.val,
                c2_hash |-> c2_hash.val,
                domain_sep |-> domain_sep.val])

\* ContinuityPublicInputsV2::into_public_inputs
ContinuityPublicInputsV2_into_public_inputs(self) ==
  IF ~continuity_ensure_version_v2(self.schema_version)
    THEN Err("public_inputs.schema_version: schema_version mismatch")
  ELSE IF ~continuity_ensure_statement_type_version(self.statement_type,
                                                     self.statement_version)
    THEN Err("statement_type or statement_version mismatch")
  ELSE IF ~continuity_ensure_domain_sep_v2(self.domain_sep)
    THEN Err("public_inputs.domain_sep: domain_sep mismatch")
  ELSE
    LET c1_hash == fr_from_fixed_bytes(self.c1_hash)
        c2_hash == fr_from_fixed_bytes(self.c2_hash)
        domain_sep == fr_from_fixed_bytes(self.domain_sep)
        ctx_hash == fr_from_fixed_bytes(self.ctx_hash)
    IN IF ~c1_hash.ok THEN c1_hash
       ELSE IF ~c2_hash.ok THEN c2_hash
       ELSE IF ~domain_sep.ok THEN domain_sep
       ELSE IF ~ctx_hash.ok THEN ctx_hash
       ELSE Ok([c1_hash |-> c1_hash.val,
                c2_hash |-> c2_hash.val,
                domain_sep |-> domain_sep.val,
                ctx_hash |-> ctx_hash.val])

\* ContinuityInstanceV2::into_instance
ContinuityInstanceV2_into_instance(self) ==
  IF ~continuity_ensure_version_v2(self.schema_version)
    THEN Err("instance.schema_version: schema_version mismatch")
  ELSE IF ~continuity_ensure_statement_type_version(self.statement_type,
                                                     self.statement_version)
    THEN Err("statement_type or statement_version mismatch")
  ELSE IF ~continuity_ensure_domain_sep_v2(self.domain_sep)
    THEN Err("instance.domain_sep: domain_sep mismatch")
  ELSE
    LET id == fr_from_fixed_bytes(self.id)
        r1 == fr_from_fixed_bytes(self.r1)
        r2 == fr_from_fixed_bytes(self.r2)
        c1_hash == fr_from_fixed_bytes(self.c1_hash)
        c2_hash == fr_from_fixed_bytes(self.c2_hash)
        ctx_hash == fr_from_fixed_bytes(self.ctx_hash)
    IN IF ~id.ok THEN id
       ELSE IF ~r1.ok THEN r1
       ELSE IF ~r2.ok THEN r2
       ELSE IF ~c1_hash.ok THEN c1_hash
       ELSE IF ~c2_hash.ok THEN c2_hash
       ELSE IF ~ctx_hash.ok THEN ctx_hash
       ELSE IF commitment_hash_v2(id.val, r1.val, ctx_hash.val) # c1_hash.val
         THEN Err("c1_hash does not match commitment hash")
       ELSE IF commitment_hash_v2(id.val, r2.val, ctx_hash.val) # c2_hash.val
         THEN Err("c2_hash does not match commitment hash")
       ELSE LET domain_sep == fr_from_fixed_bytes(self.domain_sep)
            IN IF ~domain_sep.ok THEN domain_sep
               ELSE Ok([public_inputs |-> [c1_hash |-> c1_hash.val,
                                           c2_hash |-> c2_hash.val,
                                           domain_sep |-> domain_sep.val,
                                           ctx_hash |-> ctx_hash.val],
                        witness |-> [id |-> id.val, r1 |-> r1.val, r2 |-> r2.val]])

\* A faulty build_instance_v1: c2_hash is computed under r1.
continuity_build_instance_v1_c2_under_r1(id, r1, r2) ==
  [schema_version |-> CONTINUITY_INSTANCE_VERSION_V1,
   id |-> fr_to_fixed_bytes(id),
   r1 |-> fr_to_fixed_bytes(r1),
   r2 |-> fr_to_fixed_bytes(r2),
   c1_hash |-> fr_to_fixed_bytes(commitment_hash(id, r1)),
   c2_hash |-> fr_to_fixed_bytes(commitment_hash(id, r1)),
   domain_sep |-> CONTINUITY_V1_DOMAIN_SEP]

\* continuity::schema::build_instance_v1 (the instance half of the pair).
continuity_build_instance_v1(id, r1, r2) ==
  [schema_version |-> CONTINUITY_INSTANCE_VERSION_V1,
   id |-> fr_to_fixed_bytes(id),
   r1 |-> fr_to_fixed_bytes(r1),
   r2 |-> fr_to_fixed_bytes(r2),
   c1_hash |-> fr_to_fixed_bytes(commitment_hash(id, r1)),
   c2_hash |-> fr_to_fixed_bytes(commitment_hash(id, r2)),
   domain_sep |-> CONTINUITY_V1_DOMAIN_SEP]

\* continuity::schema::build_instance_v2 (the instance half of the pair).
continuity_build_instance_v2(id, r1, r2, ctx_hash) ==
  [schema_version |-> CONTINUITY_INSTANCE_VERSION_V2,
   statement_type |-> CONTINUITY_STATEMENT_TYPE,
   statement_version |-> CONTINUITY_STATEMENT_VERSION_V2,
   id |-> fr_to_fixed_bytes(id),
   r1 |-> fr_to_fixed_bytes(r1),
   r2 |-> fr_to_fixed_bytes(r2),
   c1_hash |-> fr_to_fixed_bytes(commitment_hash_v2(id, r1, ctx_hash)),
   c2_hash |-> fr_to_fixed_bytes(commitment_hash_v2(id, r2, ctx_hash)),
   domain_sep |-> CONTINUITY_V2_DOMAIN_SEP,
   ctx_hash |-> fr_to_fixed_bytes(ctx_hash)]

(***************************************************************************)
(* Unlinkability schema (unlinkability/src/schema.rs).                     *)
(***************************************************************************)
unlinkability_ensure_version_v2(version) ==
  version = UNLINKABILITY_INSTANCE_VERSION_V2

\* A faulty check: statement_type is not compared.
unlinkability_ensure_statement_type_version_any_type(statement_type, statement_version) ==
  statement_version = UNLINKABILITY_STATEMENT_VERSION_V2

unlinkability_ensure_statement_type_version(statement_type, statement_version) ==
  /\ statement_type = UNLINKABILITY_STATEMENT_TYPE
  /\ statement_version = UNLINKABILITY_STATEMENT_VERSION_V2

unlinkability_ensure_domain_sep_v2(value) == value = UNLINKABILITY_V2_DOMAIN_SEP

\* UnlinkabilityPublicInputsV2::into_public_inputs
UnlinkabilityPublicInputsV2_into_public_inputs(self) ==
  IF ~unlinkability_ensure_version_v2(self.schema_version)
    THEN Err("public_inputs.schema_version: schema_version mismatch")
  ELSE IF ~unlinkability_ensure_statement_type_version(self.statement_type,
                                                        self.statement_version)
    THEN Err("statement_type or statement_version mismatch")
  ELSE IF ~unlinkability_ensure_domain_sep_v2(self.domain_sep)
    THEN Err("public_inputs.domain_sep: domain_sep mismatch")
  ELSE
    LET tag == fr_from_fixed_bytes(self.tag)
        domain_sep == fr_from_fixed_bytes(self.domain_sep)
        ctx_hash == fr_from_fixed_bytes(self.ctx_hash)
    IN IF ~tag.ok THEN tag
       ELSE IF ~domain_sep.ok THEN domain_sep
       ELSE IF ~ctx_hash.ok THEN ctx_hash
       ELSE Ok([tag |-> tag.val,
                domain_sep |-> domain_sep.val,
                ctx_hash |-> ctx_hash.val])

\* A faulty into_instance: the expected tag is computed over the default
\* context instead of the record's ctx_hash.
UnlinkabilityInstanceV2_into_instance_default_ctx(self) ==
  IF ~unlinkability_ensure_version_v2(self.schema_version)
    THEN Err("instance.schema_version: schema_version mismatch")
  ELSE IF ~unlinkability_ensure_statement_type_version(self.statement_type,
                                                        self.statement_version)
    THEN Err("statement_type or statement_version mismatch")
  ELSE IF ~unlinkability_ensure_domain_sep_v2(self.domain_sep)
    THEN Err("instance.domain_sep: domain_sep mismatch")
  ELSE
    LET id == fr_from_fixed_bytes(self.id)
        blinding == fr_from_fixed_bytes(self.blinding)
        tag == fr_from_fixed_bytes(self.tag)
        ctx_hash == fr_from_fixed_bytes(self.ctx_hash)
        domain_sep == fr_from_fixed_bytes(self.domain_sep)
        expected_tag == tag_hash(unlinkability_domain_sep_v2_fr,
                                 from_be_bytes_mod_order(UNLINKABILITY_V2_DEFAULT_CTX_HASH),
                                 commitment_hash(id.val, blinding.val))
    IN IF expected_tag # tag.val
         THEN Err("tag does not match computed value")
       ELSE Ok([public_inputs |-> [tag |-> tag.val,
                                   domain_sep |-> domain_sep.val,
                                   ctx_hash |-> ctx_hash.val],
                witness |-> [id |-> id.val, blinding |-> blinding.val]])

\* UnlinkabilityInstanceV2::into_instance
UnlinkabilityInstanceV2_into_instance(self) ==
  IF ~unlinkability_ensure_version_v2(self.schema_version)
    THEN Err("instance.schema_version: schema_version mismatch")
  ELSE IF ~unlinkability_ensure_statement_type_version(self.statement_type,
                                                        self.statement_version)
    THEN Err("statement_type or statement_version mismatch")
  ELSE IF ~unlinkability_ensure_domain_sep_v2(self.domain_sep)
    THEN Err("instance.domain_sep: domain_sep mismatch")
  ELSE
    LET id == fr_from_fixed_bytes(self.id)
        blinding == fr_from_fixed_bytes(self.blinding)
        tag == fr_from_fixed_bytes(self.tag)
        ctx_hash == fr_from_fixed_bytes(self.ctx_hash)
    IN IF ~id.ok THEN id
       ELSE IF ~blinding.ok THEN blinding
       ELSE IF ~tag.ok THEN tag
       ELSE IF ~ctx_hash.ok THEN ctx_hash
       ELSE
         LET commitment == commitment_hash(id.val, blinding.val)
             expected_tag == tag_hash(unlinkability_domain_sep_v2_fr,
                                      ctx_hash.val, commitment)
         IN IF expected_tag # tag.val
              THEN Err("tag does not match computed value")
            ELSE LET domain_sep == fr_from_fixed_bytes(self.domain_sep)
                 IN IF ~domain_sep.ok THEN domain_sep
                    ELSE Ok([public_inputs |-> [tag |-> tag.val,
                                                domain_sep |-> domain_sep.val,
                                                ctx_hash |-> ctx_hash.val],
                             witness |-> [id |-> id.val,
                                          blinding |-> blinding.val]])

\* unlinkability::schema::build_instance_v2 (the instance half of the pair).
unlinkability_build_instance_v2(id, blinding, ctx_hash) ==
  [schema_version |-> UNLINKABILITY_INSTANCE_VERSION_V2,
   statement_type |-> UNLINKABILITY_STATEMENT_TYPE,
   statement_version |-> UNLINKABILITY_STATEMENT_VERSION_V2,
   id |-> fr_to_fixed_bytes(id),
   blinding |-> fr_to_fixed_bytes(blinding),
   tag |-> fr_to_fixed_bytes(tag_hash(unlinkability_domain_sep_v2_fr, ctx_hash,
                                      commitment_hash(id, blinding))),
   domain_sep |-> UNLINKABILITY_V2_DOMAIN_SEP,
   ctx_hash |-> fr_to_fixed_bytes(ctx_hash)]

(***************************************************************************)
(* Membership schema (membership/src/lib.rs).                              *)
(***************************************************************************)
membership_ensure_version(version, expected) == version = expected

membership_ensure_version_u16(version, expected) == version = expected

membership_ensure_statement_type_version(statement_type, statement_version) ==
  /\ statement_type = MEMBERSHIP_STATEMENT_TYPE
  /\ statement_version = MEMBERSHIP_STATEMENT_VERSION_V2

membership_ensure_domain_sep(domain_sep) == domain_sep = MEMBERSHIP_V2_DOMAIN_SEP

\* MembershipPublicInputsBytes::into_public_inputs
MembershipPublicInputsBytes_into_public_inputs(self) ==
  LET root == fr_from_bytes(self.root)
      commitment == fr_from_bytes(self.commitment)
  IN IF ~root.ok THEN root
     ELSE IF ~commitment.ok THEN commitment
     ELSE Ok([root |-> root.val, commitment |-> commitment.val])

\* The loop of MembershipWitnessBytes::into_witness over merkle_path: the
\* first sibling that fails to decode ends it.
RECURSIVE DecodePathNodes(_)
DecodePathNodes(nodes) ==
  IF nodes = <<>> THEN Ok(<<>>)
  ELSE LET sibling == fr_from_bytes(Head(nodes).sibling)
       IN IF ~sibling.ok THEN sibling
          ELSE LET rest == DecodePathNodes(Tail(nodes))
               IN IF ~rest.ok THEN rest
                  ELSE Ok(<<[sibling |-> sibling.val,
                             is_left |-> Head(nodes).is_left]>> \o rest.val)

\* MembershipWitnessBytes::into_witness
MembershipWitnessBytes_into_witness(self) ==
  IF Len(self.merkle_path) # MERKLE_DEPTH
    THEN Err("merkle_path length mismatch")
  ELSE LET path == DecodePathNodes(self.merkle_path)
       IN IF ~path.ok THEN path
          ELSE LET identity_scalar == fr_from_bytes(self.identity_scalar)
                   blinding == fr_from_bytes(self.blinding)
               IN IF ~identity_scalar.ok THEN identity_scalar
                  ELSE IF ~blinding.ok THEN blinding
                  ELSE Ok([identity_scalar |-> identity_scalar.val,
                           blinding |-> blinding.val,
                           merkle_path |-> path.val])

\* MembershipInstanceBytes::into_instance
MembershipInstanceBytes_into_instance(self) ==
  LET public_inputs == MembershipPublicInputsBytes_into_public_inputs(self.public_inputs)
  IN IF ~public_inputs.ok THEN public_inputs
     ELSE LET witness == MembershipWitnessBytes_into_witness(self.witness)
          IN IF ~witness.ok THEN witness
             ELSE Ok([public_inputs |-> public_inputs.val, witness |-> witness.val])

\* MembershipPublicInputsV1Bytes::into_public_inputs_with_depth
MembershipPublicInputsV1Bytes_into_public_inputs_with_depth(self) ==
  IF ~membership_ensure_version(self.version, MEMBERSHIP_INSTANCE_VERSION_V1)
    THEN Err("public_inputs.version: version mismatch")
  ELSE IF self.depth = 0 THEN Err("public_inputs.depth must be > 0")
  ELSE LET root == fr_from_bytes(self.root)
           commitment == fr_from_bytes(self.commitment)
       IN IF ~root.ok THEN root
          ELSE IF ~commitment.ok THEN commitment
          ELSE Ok([inputs |-> [root |-> root.val, commitment |-> commitment.val],
                   depth |-> self.depth])

\* The loop of MembershipWitnessV1Bytes::into_witness (and of the V2 one):
\* sibling idx is paired with merkle_directions[idx].
RECURSIVE DecodeSiblings(_, _)
DecodeSiblings(siblings, directions) ==
  IF siblings = <<>> THEN Ok(<<>>)
  ELSE LET sibling == fr_from_bytes(Head(siblings))
       IN IF ~sibling.ok THEN sibling
          ELSE LET rest == DecodeSiblings(Tail(siblings), Tail(directions))
               IN IF ~rest.ok THEN rest
                  ELSE Ok(<<[sibling |-> sibling.val,
                             is_left |-> Head(directions)]>> \o rest.val)

\* A faulty into_witness: the number of siblings is not compared with the
\* depth; the loop pairs the siblings there are with the leading directions.
MembershipWitnessV1Bytes_into_witness_no_sibling_count(self, expected_depth) ==
  IF ~membership_ensure_version(self.version, MEMBERSHIP_INSTANCE_VERSION_V1)
    THEN Err("witness.version: version mismatch")
  ELSE IF self.depth # expected_depth THEN Err("witness.depth mismatch")
  ELSE IF Len(self.merkle_directions) # expected_depth
    THEN Err("merkle_directions length mismatch")
  ELSE LET n == IF Len(self.merkle_siblings) < expected_depth
                  THEN Len(self.merkle_siblings) ELSE expected_depth
           path == DecodeSiblings(SubSeq(self.merkle_siblings, 1, n),
                                  self.merkle_directions)
       IN IF ~path.ok THEN path
          ELSE LET identity_scalar == fr_from_bytes(self.identity_scalar)
                   blinding == fr_from_bytes(self.blinding)
               IN IF ~identity_scalar.ok THEN identity_scalar
                  ELSE IF ~blinding.ok THEN blinding
                  ELSE Ok([identity_scalar |-> identity_scalar.val,
                           blinding |-> blinding.val,
                           merkle_path |-> path.val])

\* MembershipWitnessV1Bytes::into_witness
MembershipWitnessV1Bytes_into_witness(self, expected_depth) ==
  IF ~membership_ensure_version(self.version, MEMBERSHIP_INSTANCE_VERSION_V1)
    THEN Err("witness.version: version mismatch")
  ELSE IF self.depth # expected_depth THEN Err("witness.depth mismatch")
  ELSE IF Len(self.merkle_siblings) # expected_depth
    THEN Err("merkle_siblings length mismatch")
  ELSE IF Len(self.merkle_directions) # expected_depth
    THEN Err("merkle_directions length mismatch")
  ELSE LET path == DecodeSiblings(self.merkle_siblings, self.merkle_directions)
       IN IF ~path.ok THEN path
          ELSE LET identity_scalar == fr_from_bytes(self.identity_scalar)
                   blinding == fr_from_bytes(self.blinding)
               IN IF ~identity_scalar.ok THEN identity_scalar
                  ELSE IF ~blinding.ok THEN blinding
                  ELSE Ok([identity_scalar |-> identity_scalar.val,
                           blinding |-> blinding.val,
                           merkle_path |-> path.val])

\* MembershipInstanceV1Bytes::into_instance_with_depth
MembershipInstanceV1Bytes_into_instance_with_depth(self) ==
  IF ~membership_ensure_version(self.version, MEMBERSHIP_INSTANCE_VERSION_V1)
    THEN Err("instance.version: version mismatch")
  ELSE LET pi == MembershipPublicInputsV1Bytes_into_public_inputs_with_depth(
                   self.public_inputs)
       IN IF ~pi.ok THEN pi
          ELSE IF self.witness.depth # pi.val.depth
            THEN Err("instance.depth mismatch")
          ELSE LET witness == MembershipWitnessV1Bytes_into_witness(self.witness,
                                                                    pi.val.depth)
               IN IF ~witness.ok THEN witness
                  ELSE Ok([public_inputs |-> pi.val.inputs,
                           witness |-> witness.val,
                           depth |-> pi.val.depth])

\* MembershipPublicInputsV2Bytes::into_public_inputs_with_depth
MembershipPublicInputsV2Bytes_into_public_inputs_with_depth(self) ==
  IF ~membership_ensure_version_u16(self.schema_version,
                                    MEMBERSHIP_INSTANCE_VERSION_V2)
    THEN Err("public_inputs.schema_version: version mismatch")
  ELSE IF ~membership_ensure_statement_type_version(self.statement_type,
                                                     self.statement_version)
    THEN Err("statement_type or statement_version mismatch")
  ELSE IF ~membership_ensure_domain_sep(self.domain_sep)
    THEN Err("public_inputs.domain_sep: domain_sep mismatch")
  ELSE IF self.depth = 0 THEN Err("public_inputs.depth must be > 0")
  ELSE LET root == fr_from_bytes(self.root)
           commitment == fr_from_bytes(self.commitment)
           domain_sep == fr_from_bytes(self.domain_sep)
           ctx_hash == fr_from_bytes(self.ctx_hash)
       IN IF ~root.ok THEN root
          ELSE IF ~commitment.ok THEN commitment
          ELSE IF ~domain_sep.ok THEN domain_sep
          ELSE IF ~ctx_hash.ok THEN ctx_hash
          ELSE Ok([inputs |-> [root |-> root.val,
                               commitment |-> commitment.val,
                               domain_sep |-> domain_sep.val,
                               ctx_hash |-> ctx_hash.val],
                   depth |-> self.depth])

\* MembershipWitnessV2Bytes::into_witness
MembershipWitnessV2Bytes_into_witness(self, expected_depth) ==
  IF ~membership_ensure_version_u16(self.schema_version,
                                    MEMBERSHIP_INSTANCE_VERSION_V2)
    THEN Err("witness.schema_version: version mismatch")
  ELSE IF self.depth # expected_depth THEN Err("witness.depth mismatch")
  ELSE IF Len(self.merkle_siblings) # expected_depth
    THEN Err("merkle_siblings length mismatch")
  ELSE IF Len(self.merkle_directions) # expected_depth
    THEN Err("merkle_directions length mismatch")
  ELSE LET path == DecodeSiblings(self.merkle_siblings, self.merkle_directions)
       IN IF ~path.ok THEN path
          ELSE LET identity_scalar == fr_from_bytes(self.identity_scalar)
                   blinding == fr_from_bytes(self.blinding)
               IN IF ~identity_scalar.ok THEN identity_scalar
                  ELSE IF ~blinding.ok THEN blinding
                  ELSE Ok([identity_scalar |-> identity_scalar.val,
                           blinding |-> blinding.val,
                           merkle_path |-> path.val])

\* MembershipInstanceV2Bytes::into_instance_with_depth
MembershipInstanceV2Bytes_into_instance_with_depth(self) ==
  IF ~membership_ensure_version_u16(self.schema_version,
                                    MEMBERSHIP_INSTANCE_VERSION_V2)
    THEN Err("instance.schema_version: version mismatch")
  ELSE LET pi == MembershipPublicInputsV2Bytes_into_public_inputs_with_depth(
                   self.public_inputs)
       IN IF ~pi.ok THEN pi
          ELSE IF self.witness.depth # pi.val.depth
            THEN Err("instance.depth mismatch")
          ELSE LET witness == MembershipWitnessV2Bytes_into_witness(self.witness,
                                                                    pi.val.depth)
               IN IF ~witness.ok THEN witness
                  ELSE Ok([public_inputs |-> pi.val.inputs,
                           witness |-> witness.val,
                           depth |-> pi.val.depth])

\* The native reduction of a Merkle path from a leaf, as the instance
\* builders do it: is_left puts the sibling on the left.
RECURSIVE merkle_root_native(_, _)
merkle_root_native(current, path) ==
  IF path = <<>> THEN current
  ELSE LET node == Head(path)
           left == IF node.is_left THEN node.sibling ELSE current
           right == IF node.is_left THEN current ELSE node.sibling
       IN merkle_root_native(node_hash(left, right), Tail(path))

(***************************************************************************)
(* Constraint systems.  A synthesis leaves the variables it allocated, in  *)
(* allocation order, and the equalities it enforced; the system is         *)
(* satisfied when every enforced equality holds of the assigned values.    *)
(* (The constraints inside the Poseidon gadget and the booleanity of       *)
(* is_left hold of every assignment the synthesis computes.)               *)
(***************************************************************************)
new_input(name, val) == [kind |-> "input", name |-> name, val |-> val]

new_witness(name, val) == [kind |-> "witness", name |-> name, val |-> val]

enforce_equal(lhs, rhs) == [lhs |-> lhs, rhs |-> rhs]

\* Boolean::select: the first argument when the condition is true.
select(cond, first, second) == IF cond THEN first ELSE second

\* A Boolean witness is a field variable holding 0 or 1.
BoolFr(b) == IF b THEN FrFrom(1) ELSE FrFrom(0)

Unsatisfiable == [err |-> "Unsatisfiable", allocs |-> <<>>, constraints |-> <<>>]

Synthesized(allocs, constraints) ==
  [err |-> "none", allocs |-> allocs, constraints |-> constraints]

\* ConstraintSystem::is_satisfied
is_satisfied(sys) ==
  /\ sys.err = "none"
  /\ \A i \in DOMAIN sys.constraints :
        sys.constraints[i].lhs = sys.constraints[i].rhs

\* A faulty path loop: is_left puts the sibling on the right.
RECURSIVE membership_path_loop_swapped(_, _, _)
membership_path_loop_swapped(current, path, allocs) ==
  IF path = <<>> THEN [current |-> current, allocs |-> allocs]
  ELSE LET sibling == Head(path).sibling
           is_left == Head(path).is_left
           left == select(is_left, current, sibling)
           right == select(is_left, sibling, current)
       IN membership_path_loop_swapped(
            poseidon_hash_var(<<FrFrom(DOMAIN_NODE), left, right>>),
            Tail(path),
            allocs \o <<new_witness("sibling", sibling),
                        new_witness("is_left", BoolFr(is_left))>>)

\* A faulty path loop: is_left is allocated but never selects; the running
\* hash is always the left child.
RECURSIVE membership_path_loop_unordered(_, _, _)
membership_path_loop_unordered(current, path, allocs) ==
  IF path = <<>> THEN [current |-> current, allocs |-> allocs]
  ELSE LET sibling == Head(path).sibling
           is_left == Head(path).is_left
       IN membership_path_loop_unordered(
            poseidon_hash_var(<<FrFrom(DOMAIN_NODE), current, sibling>>),
            Tail(path),
            allocs \o <<new_witness("sibling", sibling),
                        new_witness("is_left", BoolFr(is_left))>>)

\* The path loop of MembershipCircuit / MembershipCircuitV2: allocates
\* sibling and is_left per level and hashes the selected pair.
RECURSIVE membership_path_loop(_, _, _)
membership_path_loop(current, path, allocs) ==
  IF path = <<>> THEN [current |-> current, allocs |-> allocs]
  ELSE LET sibling == Head(path).sibling
           is_left == Head(path).is_left
           left == select(is_left, sibling, current)
           right == select(is_left, current, sibling)
       IN membership_path_loop(
            poseidon_hash_var(<<FrFrom(DOMAIN_NODE), left, right>>),
            Tail(path),
            allocs \o <<new_witness("sibling", sibling),
                        new_witness("is_left", BoolFr(is_left))>>)

\* A faulty synthesis: the guard compares the lengths but accepts depth 0.
MembershipCircuit_generate_constraints_no_zero_check(self) ==
  IF Len(self.merkle_path) # self.expected_depth
    THEN Unsatisfiable
  ELSE
    LET head == <<new_input("root", self.root),
                  new_input("commitment", self.commitment),
                  new_witness("identity_scalar", self.identity_scalar),
                  new_witness("blinding", self.blinding)>>
        commitment == poseidon_hash_var(<<FrFrom(DOMAIN_COMMITMENT),
                                          self.identity_scalar, self.blinding>>)
        leaf == poseidon_hash_var(<<FrFrom(DOMAIN_LEAF), commitment, FrFrom(0)>>)
        walk == membership_path_loop(leaf, self.merkle_path, head)
    IN Synthesized(walk.allocs,
                   <<enforce_equal(commitment, self.commitment),
                     enforce_equal(walk.current, self.root)>>)

\* MembershipCircuit::generate_constraints
MembershipCircuit_generate_constraints(self) ==
  IF self.expected_depth = 0 \/ Len(self.merkle_path) # self.expected_depth
    THEN Unsatisfiable
  ELSE
    LET head == <<new_input("root", self.root),
                  new_input("commitment", self.commitment),
                  new_witness("identity_scalar", self.identity_scalar),
                  new_witness("blinding", self.blinding)>>
        commitment == poseidon_hash_var(<<FrFrom(DOMAIN_COMMITMENT),
                                          self.identity_scalar, self.blinding>>)
        leaf == poseidon_hash_var(<<FrFrom(DOMAIN_LEAF), commitment, FrFrom(0)>>)
        walk == membership_path_loop(leaf, self.merkle_path, head)
    IN Synthesized(walk.allocs,
                   <<enforce_equal(commitment, self.commitment),
                     enforce_equal(walk.current, self.root)>>)

\* A faulty synthesis: domain_sep is hashed into the leaf but never compared
\* with MEMBERSHIP_V2_DOMAIN_SEP.
MembershipCircuitV2_generate_constraints_free_domain_sep(self) ==
  IF self.expected_depth = 0 \/ Len(self.merkle_path) # self.expected_depth
    THEN Unsatisfiable
  ELSE
    LET head == <<new_input("root", self.root),
                  new_input("commitment", self.commitment),
                  new_input("domain_sep", self.domain_sep),
                  new_input("ctx_hash", self.ctx_hash),
                  new_witness("identity_scalar", self.identity_scalar),
                  new_witness("blinding", self.blinding)>>
        commitment == poseidon_hash_var(<<FrFrom(DOMAIN_COMMITMENT),
                                          self.identity_scalar, self.blinding>>)
        leaf == poseidon_hash_var(<<self.domain_sep, self.ctx_hash, commitment>>)
        walk == membership_path_loop(leaf, self.merkle_path, head)
    IN Synthesized(walk.allocs,
                   <<enforce_equal(commitment, self.commitment),
                     enforce_equal(walk.current, self.root)>>)

\* MembershipCircuitV2::generate_constraints
MembershipCircuitV2_generate_constraints(self) ==
  IF self.expected_depth = 0 \/ Len(self.merkle_path) # self.expected_depth
    THEN Unsatisfiable
  ELSE
    LET head == <<new_input("root", self.root),
                  new_input("commitment", self.commitment),
                  new_input("domain_sep", self.domain_sep),
                  new_input("ctx_hash", self.ctx_hash),
                  new_witness("identity_scalar", self.identity_scalar),
                  new_witness("blinding", self.blinding)>>
        commitment == poseidon_hash_var(<<FrFrom(DOMAIN_COMMITMENT),
                                          self.identity_scalar, self.blinding>>)
        leaf == poseidon_hash_var(<<self.domain_sep, self.ctx_hash, commitment>>)
        walk == membership_path_loop(leaf, self.merkle_path, head)
    IN Synthesized(walk.allocs,
                   <<enforce_equal(commitment, self.commitment),
                     enforce_equal(self.domain_sep,
                                   from_be_bytes_mod_order(MEMBERSHIP_V2_DOMAIN_SEP)),
                     enforce_equal(walk.current, self.root)>>)

\* A faulty synthesis: the second commitment is computed from r1.
ContinuityCircuit_generate_constraints_r1_twice(self) ==
  LET allocs == <<new_input("c1_hash", self.c1_hash),
                  new_input("c2_hash", self.c2_hash),
                  new_input("domain_sep", self.domain_sep),
                  new_witness("id", self.id),
                  new_witness("r1", self.r1),
                  new_witness("r2", self.r2)>>
      expected_c1 == poseidon_hash_var(<<FrFrom(DOMAIN_COMMITMENT), self.id, self.r1>>)
  IN Synthesized(allocs,
                 <<enforce_equal(expected_c1, self.c1_hash),
                   enforce_equal(expected_c1, self.c2_hash),
                   enforce_equal(self.domain_sep,
                                 from_be_bytes_mod_order(CONTINUITY_V1_DOMAIN_SEP))>>)

\* ContinuityCircuit::generate_constraints
ContinuityCircuit_generate_constraints(self) ==
  LET allocs == <<new_input("c1_hash", self.c1_hash),
                  new_input("c2_hash", self.c2_hash),
                  new_input("domain_sep", self.domain_sep),
                  new_witness("id", self.id),
                  new_witness("r1", self.r1),
                  new_witness("r2", self.r2)>>
      expected_c1 == poseidon_hash_var(<<FrFrom(DOMAIN_COMMITMENT), self.id, self.r1>>)
      expected_c2 == poseidon_hash_var(<<FrFrom(DOMAIN_COMMITMENT), self.id, self.r2>>)
  IN Synthesized(allocs,
                 <<enforce_equal(expected_c1, self.c1_hash),
                   enforce_equal(expected_c2, self.c2_hash),
                   enforce_equal(self.domain_sep,
                                 from_be_bytes_mod_order(CONTINUITY_V1_DOMAIN_SEP))>>)

\* A faulty synthesis: domain_sep is compared with the v1 constant.
ContinuityCircuitV2_generate_constraints_v1_domain_sep(self) ==
  LET allocs == <<new_input("c1_hash", self.c1_hash),
                  new_input("c2_hash", self.c2_hash),
                  new_input("domain_sep", self.domain_sep),
                  new_input("ctx_hash", self.ctx_hash),
                  new_witness("id", self.id),
                  new_witness("r1", self.r1),
                  new_witness("r2", self.r2)>>
      expected_c1 == poseidon_hash_var(<<FrFrom(DOMAIN_COMMITMENT), self.id,
                                         self.r1, self.ctx_hash>>)
      expected_c2 == poseidon_hash_var(<<FrFrom(DOMAIN_COMMITMENT), self.id,
                                         self.r2, self.ctx_hash>>)
  IN Synthesized(allocs,
                 <<enforce_equal(expected_c1, self.c1_hash),
                   enforce_equal(expected_c2, self.c2_hash),
                   enforce_equal(self.domain_sep,
                                 from_be_bytes_mod_order(CONTINUITY_V1_DOMAIN_SEP))>>)

\* ContinuityCircuitV2::generate_constraints
ContinuityCircuitV2_generate_constraints(self) ==
  LET allocs == <<new_input("c1_hash", self.c1_hash),
                  new_input("c2_hash", self.c2_hash),
                  new_input("domain_sep", self.domain_sep),
                  new_input("ctx_hash", self.ctx_hash),
                  new_witness("id", self.id),
                  new_witness("r1", self.r1),
                  new_witness("r2", self.r2)>>
      expected_c1 == poseidon_hash_var(<<FrFrom(DOMAIN_COMMITMENT), self.id,
                                         self.r1, self.ctx_hash>>)
      expected_c2 == poseidon_hash_var(<<FrFrom(DOMAIN_COMMITMENT), self.id,
                                         self.r2, self.ctx_hash>>)
  IN Synthesized(allocs,
                 <<enforce_equal(expected_c1, self.c1_hash),
                   enforce_equal(expected_c2, self.c2_hash),
                   enforce_equal(self.domain_sep,
                                 from_be_bytes_mod_order(CONTINUITY_V2_DOMAIN_SEP))>>)

\* A faulty synthesis: domain_sep is hashed into the tag but never compared
\* with UNLINKABILITY_V2_DOMAIN_SEP.
UnlinkabilityCircuitV2_generate_constraints_free_domain_sep(self) ==
  LET allocs == <<new_input("tag", self.tag),
                  new_input("domain_sep", self.domain_sep),
                  new_input("ctx_hash", self.ctx_hash),
                  new_witness("id", self.id),
                  new_witness("blinding", self.blinding)>>
      commitment == poseidon_hash_var(<<FrFrom(DOMAIN_COMMITMENT), self.id,
                                        self.blinding>>)
      computed_tag == poseidon_hash_var(<<self.domain_sep, self.ctx_hash, commitment>>)
  IN Synthesized(allocs, <<enforce_equal(computed_tag, self.tag)>>)

\* UnlinkabilityCircuitV2::generate_constraints
UnlinkabilityCircuitV2_generate_constraints(self) ==
  LET allocs == <<new_input("tag", self.tag),
                  new_input("domain_sep", self.domain_sep),
                  new_input("ctx_hash", self.ctx_hash),
                  new_witness("id", self.id),
                  new_witness("blinding", self.blinding)>>
      commitment == poseidon_hash_var(<<FrFrom(DOMAIN_COMMITMENT), self.id,
                                        self.blinding>>)
      computed_tag == poseidon_hash_var(<<self.domain_sep, self.ctx_hash, commitment>>)
  IN Synthesized(allocs,
                 <<enforce_equal(computed_tag, self.tag),
                   enforce_equal(self.domain_sep,
                                 from_be_bytes_mod_order(UNLINKABILITY_V2_DOMAIN_SEP))>>)

\* ConstraintSynthesizer::generate_constraints, dispatched on the circuit type.
generate_constraints(c) ==
  CASE c.kind = "MembershipCircuit" -> MembershipCircuit_generate_constraints(c)
    [] c.kind = "MembershipCircuitV2" -> MembershipCircuitV2_generate_constraints(c)
    [] c.kind = "ContinuityCircuit" -> ContinuityCircuit_generate_constraints(c)
    [] c.kind = "ContinuityCircuitV2" -> ContinuityCircuitV2_generate_constraints(c)
    [] c.kind = "UnlinkabilityCircuitV2" -> UnlinkabilityCircuitV2_generate_constraints(c)

(***************************************************************************)
(* Circuits built from instances and for setup.                            *)
(***************************************************************************)
\* A faulty build_circuit: the expected depth is the compile-time
\* MERKLE_DEPTH instead of the length of the path.
membership_build_circuit_merkle_depth(instance) ==
  [kind |-> "MembershipCircuit",
   root |-> instance.public_inputs.root,
   commitment |-> instance.public_inputs.commitment,
   identity_scalar |-> instance.witness.identity_scalar,
   blinding |-> instance.witness.blinding,
   expected_depth |-> MERKLE_DEPTH,
   merkle_path |-> instance.witness.merkle_path]

\* membership::build_circuit
membership_build_circuit(instance) ==
  [kind |-> "MembershipCircuit",
   root |-> instance.public_inputs.root,
   commitment |-> instance.public_inputs.commitment,
   identity_scalar |-> instance.witness.identity_scalar,
   blinding |-> instance.witness.blinding,
   expected_depth |-> Len(instance.witness.merkle_path),
   merkle_path |-> instance.witness.merkle_path]

\* membership::build_circuit_v2
membership_build_circuit_v2(instance) ==
  [kind |-> "MembershipCircuitV2",
   root |-> instance.public_inputs.root,
   commitment |-> instance.public_inputs.commitment,
   domain_sep |-> instance.public_inputs.domain_sep,
   ctx_hash |-> instance.public_inputs.ctx_hash,
   identity_scalar |-> instance.witness.identity_scalar,
   blinding |-> instance.witness.blinding,
   expected_depth |-> Len(instance.witness.merkle_path),
   merkle_path |-> instance.witness.merkle_path]

\* continuity::build_circuit
continuity_build_circuit(instance) ==
  [kind |-> "ContinuityCircuit",
   c1_hash |-> instance.public_inputs.c1_hash,
   c2_hash |-> instance.public_inputs.c2_hash,
   domain_sep |-> instance.public_inputs.domain_sep,
   id |-> instance.witness.id,
   r1 |-> instance.witness.r1,
   r2 |-> instance.witness.r2]

\* The v2 counterpart of continuity::build_circuit.
continuity_build_circuit_v2(instance) ==
  [kind |-> "ContinuityCircuitV2",
   c1_hash |-> instance.public_inputs.c1_hash,
   c2_hash |-> instance.public_inputs.c2_hash,
   domain_sep |-> instance.public_inputs.domain_sep,
   ctx_hash |-> instance.public_inputs.ctx_hash,
   id |-> instance.witness.id,
   r1 |-> instance.witness.r1,
   r2 |-> instance.witness.r2]

\* unlinkability::build_circuit_v2
unlinkability_build_circuit_v2(instance) ==
  [kind |-> "UnlinkabilityCircuitV2",
   tag |-> instance.public_inputs.tag,
   domain_sep |-> instance.public_inputs.domain_sep,
   ctx_hash |-> instance.public_inputs.ctx_hash,
   id |-> instance.witness.id,
   blinding |-> instance.witness.blinding]

\* vec![x; depth]
Repeat(x, n) == [i \in 1..n |-> x]

\* A faulty dummy: one path level more than the requested depth.
setup_membership_circuit_one_deeper(depth) ==
  [kind |-> "MembershipCircuit",
   root |-> FrFrom(0),
   commitment |-> FrFrom(0),
   identity_scalar |-> FrFrom(0),
   blinding |-> FrFrom(0),
   expected_depth |-> depth + 1,
   merkle_path |-> Repeat([sibling |-> FrFrom(0), is_left |-> FALSE], depth + 1)]

\* A faulty dummy: always MERKLE_DEPTH levels, whatever depth is requested.
setup_membership_circuit_fixed_depth(depth) ==
  [kind |-> "MembershipCircuit",
   root |-> FrFrom(0),
   commitment |-> FrFrom(0),
   identity_scalar |-> FrFrom(0),
   blinding |-> FrFrom(0),
   expected_depth |-> MERKLE_DEPTH,
   merkle_path |-> Repeat([sibling |-> FrFrom(0), is_left |-> FALSE], MERKLE_DEPTH)]

\* The dummy circuit of setup_membership_with_depth.
setup_membership_circuit(depth) ==
  [kind |-> "MembershipCircuit",
   root |-> FrFrom(0),
   commitment |-> FrFrom(0),
   identity_scalar |-> FrFrom(0),
   blinding |-> FrFrom(0),
   expected_depth |-> depth,
   merkle_path |-> Repeat([sibling |-> FrFrom(0), is_left |-> FALSE], depth)]

\* The dummy circuit of setup_membership_with_depth_v2.
setup_membership_circuit_v2(depth) ==
  LET commitment == commitment_hash(FrFrom(0), FrFrom(0))
  IN [kind |-> "MembershipCircuitV2",
      root |-> commitment,
      commitment |-> commitment,
      domain_sep |-> membership_v2_domain_sep_fr,
      ctx_hash |-> FrFrom(0),
      identity_scalar |-> FrFrom(0),
      blinding |-> FrFrom(0),
      expected_depth |-> depth,
      merkle_path |-> Repeat([sibling |-> commitment, is_left |-> FALSE], depth)]

\* The dummy circuit of setup_continuity.
setup_continuity_circuit ==
  LET commitment == commitment_hash(FrFrom(0), FrFrom(0))
  IN [kind |-> "ContinuityCircuit",
      c1_hash |-> commitment,
      c2_hash |-> commitment,
      domain_sep |-> continuity_domain_sep_fr,
      id |-> FrFrom(0),
      r1 |-> FrFrom(0),
      r2 |-> FrFrom(0)]

\* The dummy circuit of setup_continuity_v2: zero witnesses.
setup_continuity_circuit_v2 ==
  LET commitment == commitment_hash_v2(FrFrom(0), FrFrom(0), FrFrom(0))
  IN [kind |-> "ContinuityCircuitV2",
      c1_hash |-> commitment,
      c2_hash |-> commitment,
      domain_sep |-> continuity_domain_sep_v2_fr,
      ctx_hash |-> FrFrom(0),
      id |-> FrFrom(0),
      r1 |-> FrFrom(0),
      r2 |-> FrFrom(0)]

\* The dummy circuit of setup_unlinkability_v2.
setup_unlinkability_circuit_v2 ==
  LET commitment == commitment_hash(FrFrom(0), FrFrom(0))
      domain_sep == unlinkability_domain_sep_v2_fr
  IN [kind |-> "UnlinkabilityCircuitV2",
      tag |-> tag_hash(domain_sep, FrFrom(0), commitment),
      domain_sep |-> domain_sep,
      ctx_hash |-> FrFrom(0),
      id |-> FrFrom(0),
      blinding |-> FrFrom(0)]

(***************************************************************************)
(* Groth16 (ark_groth16), idealised: a key is the shape of the circuit it  *)
(* was generated for; a proof verifies exactly when it was made with the   *)
(* key's own circuit shape from a satisfying assignment and is checked     *)
(* against that assignment's public inputs.                                *)
(***************************************************************************)
Shape(kind, sys) ==
  [kind |-> kind,
   vars |-> [i \in DOMAIN sys.allocs |-> <<sys.allocs[i].kind, sys.allocs[i].name>>],
   n_constraints |-> Len(sys.constraints)]

\* The values of the instance (public input) variables, in allocation order.
InstanceAssignment(sys) ==
  LET ins == SelectSeq(sys.allocs, LAMBDA a : a.kind = "input")
  IN [i \in DOMAIN ins |-> ins[i].val]

\* Groth16::generate_random_parameters_with_reduction
generate_random_parameters_with_reduction(c) ==
  LET sys == generate_constraints(c)
  IN IF sys.err # "none" THEN Err(sys.err)
     ELSE Ok(Shape(c.kind, sys))

\* Groth16::create_random_proof_with_reduction
create_random_proof_with_reduction(c, key) ==
  LET sys == generate_constraints(c)
  IN IF sys.err # "none" THEN Err(sys.err)
     ELSE Ok([key |-> key,
              shape |-> Shape(c.kind, sys),
              public |-> InstanceAssignment(sys),
              sat |-> is_satisfied(sys)])

\* Groth16::verify_proof on a prepared verifying key.
verify_proof(pvk, prf, public_inputs) ==
  LET n_inputs == Cardinality({i \in DOMAIN pvk.vars : pvk.vars[i][1] = "input"})
  IN IF Len(public_inputs) # n_inputs THEN Err("MalformedVerifyingKey")
     ELSE Ok(/\ prf.key = pvk
             /\ prf.shape = pvk
             /\ prf.sat
             /\ prf.public = public_inputs)

\* setup_membership_with_depth
setup_membership_with_depth(depth) ==
  generate_random_parameters_with_reduction(setup_membership_circuit(depth))

\* setup_membership_with_depth_v2
setup_membership_with_depth_v2(depth) ==
  generate_random_parameters_with_reduction(setup_membership_circuit_v2(depth))

\* setup_continuity
setup_continuity ==
  generate_random_parameters_with_reduction(setup_continuity_circuit)

\* setup_continuity_v2
setup_continuity_v2 ==
  generate_random_parameters_with_reduction(setup_continuity_circuit_v2)

\* setup_unlinkability_v2
setup_unlinkability_v2 ==
  generate_random_parameters_with_reduction(setup_unlinkability_circuit_v2)

\* prove_membership
prove_membership(key, instance) ==
  create_random_proof_with_reduction(membership_build_circuit(instance), key)

\* prove_membership_v2
prove_membership_v2(key, instance) ==
  create_random_proof_with_reduction(membership_build_circuit_v2(instance), key)

\* prove_continuity
prove_continuity(key, instance) ==
  create_random_proof_with_reduction(continuity_build_circuit(instance), key)

\* prove_continuity_v2
prove_continuity_v2(key, instance) ==
  create_random_proof_with_reduction(continuity_build_circuit_v2(instance), key)

\* prove_unlinkability_v2
prove_unlinkability_v2(key, instance) ==
  create_random_proof_with_reduction(unlinkability_build_circuit_v2(instance), key)

\* The public-input vector verify_membership assembles.
verify_membership_inputs(public_inputs) ==
  <<[name |-> "root", val |-> public_inputs.root],
    [name |-> "commitment", val |-> public_inputs.commitment]>>

\* The public-input vector verify_membership_v2 assembles.
verify_membership_v2_inputs(public_inputs) ==
  <<[name |-> "root", val |-> public_inputs.root],
    [name |-> "commitment", val |-> public_inputs.commitment],
    [name |-> "domain_sep", val |-> public_inputs.domain_sep],
    [name |-> "ctx_hash", val |-> public_inputs.ctx_hash]>>

\* The public-input vector verify_continuity assembles.
verify_continuity_inputs(public_inputs) ==
  <<[name |-> "c1_hash", val |-> public_inputs.c1_hash],
    [name |-> "c2_hash", val |-> public_inputs.c2_hash],
    [name |-> "domain_sep", val |-> public_inputs.domain_sep]>>

\* The public-input vector verify_continuity_v2 assembles.
verify_continuity_v2_inputs(public_inputs) ==
  <<[name |-> "c1_hash", val |-> public_inputs.c1_hash],
    [name |-> "c2_hash", val |-> public_inputs.c2_hash],
    [name |-> "domain_sep", val |-> public_inputs.domain_sep],
    [name |-> "ctx_hash", val |-> public_inputs.ctx_hash]>>

\* A faulty vector: ctx_hash and domain_sep change places.
verify_unlinkability_v2_inputs_swapped(public_inputs) ==
  <<[name |-> "tag", val |-> public_inputs.tag],
    [name |-> "ctx_hash", val |-> public_inputs.ctx_hash],
    [name |-> "domain_sep", val |-> public_inputs.domain_sep]>>

\* The public-input vector verify_unlinkability_v2 assembles.
verify_unlinkability_v2_inputs(public_inputs) ==
  <<[name |-> "tag", val |-> public_inputs.tag],
    [name |-> "domain_sep", val |-> public_inputs.domain_sep],
    [name |-> "ctx_hash", val |-> public_inputs.ctx_hash]>>

Values(named) == [i \in DOMAIN named |-> named[i].val]

\* verify_membership / verify_membership_v2 / verify_continuity /
\* verify_unlinkability_v2: prepare the key, assemble the vector, verify.
verify_membership(key, public_inputs, prf) ==
  verify_proof(key, prf, Values(verify_membership_inputs(public_inputs)))

verify_membership_v2(key, public_inputs, prf) ==
  verify_proof(key, prf, Values(verify_membership_v2_inputs(public_inputs)))

verify_continuity(key, public_inputs, prf) ==
  verify_proof(key, prf, Values(verify_continuity_inputs(public_inputs)))

verify_continuity_v2(key, public_inputs, prf) ==
  verify_proof(key, prf, Values(verify_continuity_v2_inputs(public_inputs)))

verify_unlinkability_v2(key, public_inputs, prf) ==
  verify_proof(key, prf, Values(verify_unlinkability_v2_inputs(public_inputs)))

(***************************************************************************)
(* Instance builders of the membership bindings (membership_py).           *)
(***************************************************************************)
\* fixed_bytes32: 1 to 32 bytes, left-padded with zeros to 32.
fixed_bytes32(data) ==
  IF data.len = 0 THEN Err("cannot be empty")
  ELSE IF data.len > FIELD_BYTES THEN Err("must be at most 32 bytes")
  ELSE Ok([data EXCEPT !.len = FIELD_BYTES])

Zip(siblings, directions) ==
  [i \in 1..Len(siblings) |-> [sibling |-> siblings[i], is_left |-> directions[i]]]

\* make_membership_instance_bytes (schema v0)
make_membership_instance_bytes(identity_scalar, blinding, merkle_siblings, merkle_is_left) ==
  IF Len(merkle_siblings) # Len(merkle_is_left)
    THEN Err("merkle_siblings and merkle_is_left length mismatch")
  ELSE IF Len(merkle_siblings) # MERKLE_DEPTH
    THEN Err("merkle_path length mismatch")
  ELSE
    LET witness_bytes == [identity_scalar |-> identity_scalar,
                          blinding |-> blinding,
                          merkle_path |-> Zip(merkle_siblings, merkle_is_left)]
        witness == MembershipWitnessBytes_into_witness(witness_bytes)
    IN IF ~witness.ok THEN witness
       ELSE
         LET commitment == commitment_hash(witness.val.identity_scalar,
                                           witness.val.blinding)
             current == merkle_root_native(leaf_hash(commitment),
                                           witness.val.merkle_path)
         IN Ok([public_inputs |-> [root |-> fr_to_fixed_bytes(current),
                                   commitment |-> fr_to_fixed_bytes(commitment)],
                witness |-> witness_bytes])

\* make_membership_instance_v1_bytes
make_membership_instance_v1_bytes(identity_scalar, blinding, merkle_siblings, merkle_is_left) ==
  IF Len(merkle_siblings) # Len(merkle_is_left)
    THEN Err("merkle_siblings and merkle_is_left length mismatch")
  ELSE IF merkle_siblings = <<>> THEN Err("merkle_path must not be empty")
  ELSE
    LET depth == Len(merkle_siblings)
        witness_bytes == [version |-> MEMBERSHIP_INSTANCE_VERSION_V1,
                          depth |-> depth,
                          identity_scalar |-> identity_scalar,
                          blinding |-> blinding,
                          merkle_siblings |-> merkle_siblings,
                          merkle_directions |-> merkle_is_left]
        witness == MembershipWitnessV1Bytes_into_witness(witness_bytes, depth)
    IN IF ~witness.ok THEN witness
       ELSE
         LET commitment == commitment_hash(witness.val.identity_scalar,
                                           witness.val.blinding)
             current == merkle_root_native(poseidon_hash_leaf(commitment),
                                           witness.val.merkle_path)
         IN Ok([version |-> MEMBERSHIP_INSTANCE_VERSION_V1,
                public_inputs |-> [version |-> MEMBERSHIP_INSTANCE_VERSION_V1,
                                   depth |-> depth,
                                   root |-> fr_to_fixed_bytes(current),
                                   commitment |-> fr_to_fixed_bytes(commitment)],
                witness |-> witness_bytes])

\* make_membership_instance_v2_bytes
make_membership_instance_v2_bytes(identity_scalar, blinding, merkle_siblings, merkle_is_left, ctx_hash) ==
  IF Len(merkle_siblings) # Len(merkle_is_left)
    THEN Err("merkle_siblings and merkle_is_left length mismatch")
  ELSE IF merkle_siblings = <<>> THEN Err("merkle_path must not be empty")
  ELSE IF ~fixed_bytes32(ctx_hash).ok THEN fixed_bytes32(ctx_hash)
  ELSE
    LET depth == Len(merkle_siblings)
        ctx_hash_fixed == fixed_bytes32(ctx_hash).val
        witness_bytes == [schema_version |-> MEMBERSHIP_INSTANCE_VERSION_V2,
                          depth |-> depth,
                          identity_scalar |-> identity_scalar,
                          blinding |-> blinding,
                          merkle_siblings |-> merkle_siblings,
                          merkle_directions |-> merkle_is_left]
        witness == MembershipWitnessV2Bytes_into_witness(witness_bytes, depth)
    IN IF ~witness.ok THEN witness
       ELSE
         LET commitment == commitment_hash(witness.val.identity_scalar,
                                           witness.val.blinding)
             leaf == poseidon_hash_leaf_v2(
                       from_be_bytes_mod_order(MEMBERSHIP_V2_DOMAIN_SEP),
                       from_be_bytes_mod_order(ctx_hash_fixed), commitment)
             current == merkle_root_native(leaf, witness.val.merkle_path)
         IN Ok([schema_version |-> MEMBERSHIP_INSTANCE_VERSION_V2,
                public_inputs |->
                  [schema_version |-> MEMBERSHIP_INSTANCE_VERSION_V2,
                   statement_type |-> MEMBERSHIP_STATEMENT_TYPE,
                   statement_version |-> MEMBERSHIP_STATEMENT_VERSION_V2,
                   depth |-> depth,
                   root |-> fr_to_fixed_bytes(current),
                   commitment |-> fr_to_fixed_bytes(commitment),
                   domain_sep |-> MEMBERSHIP_V2_DOMAIN_SEP,
                   ctx_hash |-> ctx_hash_fixed],
                witness |-> witness_bytes])

\* The public-inputs record a builder writes beside the instance record: the
\* public fields of the instance, byte for byte.
PublicInputsOf(s, r) ==
  CASE s \in {"membership_v0", "membership_v1", "membership_v2"} -> r.public_inputs
    [] s = "continuity_v1" ->
         [schema_version |-> r.schema_version, c1_hash |-> r.c1_hash,
          c2_hash |-> r.c2_hash, domain_sep |-> r.domain_sep]
    [] s = "continuity_v2" ->
         [schema_version |-> r.schema_version, statement_type |-> r.statement_type,
          statement_version |-> r.statement_version, c1_hash |-> r.c1_hash,
          c2_hash |-> r.c2_hash, domain_sep |-> r.domain_sep,
          ctx_hash |-> r.ctx_hash]
    [] s = "unlinkability_v2" ->
         [schema_version |-> r.schema_version, statement_type |-> r.statement_type,
          statement_version |-> r.statement_version, tag |-> r.tag,
          domain_sep |-> r.domain_sep, ctx_hash |-> r.ctx_hash]

(***************************************************************************)
(* The command-line programs (src/bin).  argv is the argument list after   *)
(* the program name, as <<flag, value>> pairs; a flag given last without a *)
(* value has the value NoArg.  A run ends with an exit code, what it       *)
(* printed on stdout, the files it wrote and the library calls it made.    *)
(***************************************************************************)
NoArg == "<none>"

None == [some |-> FALSE]

Some(v) == [some |-> TRUE, val |-> v]

\* The value the argument loop leaves in a variable: the one given with the
\* last occurrence of the flag, or the initial value.
ArgValue(args, flag, initial) ==
  LET at == {i \in DOMAIN args : args[i][1] = flag}
  IN IF at = {} THEN initial
     ELSE args[CHOOSE i \in at : \A j \in at : j <= i][2]

\* Option<String> left by `x = args.next()`.
ArgPresent(args, flag) == ArgValue(args, flag, NoArg) # NoArg

\* str::parse::<usize>
ParseUsize(text) ==
  CASE text = "0" -> Some(0)
    [] text = "1" -> Some(1)
    [] text = "2" -> Some(2)
    [] text = "3" -> Some(3)
    [] OTHER -> None

\* std::process::exit(code), or main returning (code 0).
Exit(code, stdout, written, calls) ==
  [code |-> code, stdout |-> stdout, written |-> written, calls |-> calls]

\* write_serialized / write_bincode: File::create fails on a path that
\* cannot be written.
write_serialized(disk, path, value) ==
  IF path \in disk.unwritable THEN Err("create") ELSE Ok(<<path, value>>)

\* setup_membership: parse_args
setup_membership_parse_args(args) ==
  IF \E i \in DOMAIN args :
        \/ args[i][1] \notin {"--pk-out", "--vk-out", "--depth", "--schema"}
        \/ args[i][1] = "--depth" /\ ~ParseUsize(args[i][2]).some
        \/ args[i][1] = "--schema" /\ args[i][2] \notin {"v0", "v1", "v2"}
    THEN None
  ELSE IF ~ArgPresent(args, "--pk-out") \/ ~ArgPresent(args, "--vk-out") THEN None
  ELSE Some([pk_out |-> ArgValue(args, "--pk-out", NoArg),
             vk_out |-> ArgValue(args, "--vk-out", NoArg),
             depth |-> IF ArgPresent(args, "--depth")
                         THEN ParseUsize(ArgValue(args, "--depth", NoArg)).val
                         ELSE MERKLE_DEPTH,
             schema |-> ArgValue(args, "--schema", "v0")])

\* The tail of every setup main: pk.vk is cloned, the proving key is written,
\* then the verifying key.
write_keys(disk, pk_out, vk_out, key, calls) ==
  IF ~key.ok THEN Exit(1, <<>>, <<>>, calls)
  ELSE LET pk_file == write_serialized(disk, pk_out,
                                       [type |-> "ProvingKey", key |-> key.val])
           vk_file == write_serialized(disk, vk_out,
                                       [type |-> "VerifyingKey", key |-> key.val])
       IN IF ~pk_file.ok THEN Exit(1, <<>>, <<>>, calls)
          ELSE IF ~vk_file.ok THEN Exit(1, <<>>, <<pk_file.val>>, calls)
          ELSE Exit(0, <<>>, <<pk_file.val, vk_file.val>>, calls)

\* setup_membership: main
setup_membership_main(args, disk) ==
  LET parsed == setup_membership_parse_args(args)
  IN IF ~parsed.some THEN Exit(1, <<>>, <<>>, <<>>)
     ELSE write_keys(disk, parsed.val.pk_out, parsed.val.vk_out,
                     IF parsed.val.schema = "v2"
                       THEN setup_membership_with_depth_v2(parsed.val.depth)
                       ELSE setup_membership_with_depth(parsed.val.depth),
                     <<"setup">>)

\* setup_continuity: main, with its parse_args
setup_continuity_main(args, disk) ==
  IF \/ \E i \in DOMAIN args :
          \/ args[i][1] \notin {"--out-pk", "--out-vk", "--schema"}
          \/ args[i][1] = "--schema" /\ args[i][2] \notin {"v1", "v2"}
     \/ ~ArgPresent(args, "--out-pk")
     \/ ~ArgPresent(args, "--out-vk")
    THEN Exit(1, <<>>, <<>>, <<>>)
  ELSE write_keys(disk, ArgValue(args, "--out-pk", NoArg),
                  ArgValue(args, "--out-vk", NoArg),
                  IF ArgValue(args, "--schema", "v1") = "v2"
                    THEN setup_continuity_v2
                    ELSE setup_continuity,
                  <<"setup">>)

\* setup_unlinkability: main, with its parse_args
setup_unlinkability_main(args, disk) ==
  IF \/ \E i \in DOMAIN args : args[i][1] \notin {"--pk-out", "--vk-out"}
     \/ ~ArgPresent(args, "--pk-out")
     \/ ~ArgPresent(args, "--vk-out")
    THEN Exit(1, <<>>, <<>>, <<>>)
  ELSE write_keys(disk, ArgValue(args, "--pk-out", NoArg),
                  ArgValue(args, "--vk-out", NoArg),
                  setup_unlinkability_v2, <<"setup">>)

\* A file holds a value of one serialized type; bincode fails on a file of
\* another layout.
FileOf(type, value) == [type |-> type, value |-> value]

\* fs::read / File::open followed by deserialization into `type`: the file's
\* value, or an error when the file is missing, unreadable or of another type.
read_file(disk, path, type) ==
  IF path \notin DOMAIN disk.contents THEN Err("open")
  ELSE IF ~disk.contents[path].ok THEN Err("read")
  ELSE IF disk.contents[path].val.type # type THEN Err("deserialize")
  ELSE Ok(disk.contents[path].val)

\* write_outputs of the make_*_instance commands: the instance file first,
\* then the public-inputs file.
write_outputs(disk, instance_out, public_inputs_out, instance, public_inputs) ==
  LET instance_file == write_serialized(disk, instance_out, instance)
      public_inputs_file == write_serialized(disk, public_inputs_out, public_inputs)
  IN IF ~instance_file.ok THEN Exit(1, <<>>, <<>>, <<"build">>)
     ELSE IF ~public_inputs_file.ok
       THEN Exit(1, <<>>, <<instance_file.val>>, <<"build">>)
     ELSE Exit(0, <<>>, <<instance_file.val, public_inputs_file.val>>, <<"build">>)

DEFAULT_V1_DEPTH == 16

\* A faulty make_membership_instance parse_args: the depth starts at
\* MERKLE_DEPTH, as in setup_membership.
make_membership_instance_parse_args_setup_default(args) ==
  IF \E i \in DOMAIN args :
        \/ args[i][1] \notin {"--schema", "--depth", "--out-instance",
                              "--out-public-inputs"}
        \/ args[i][1] = "--schema" /\ args[i][2] \notin {"v0", "v1", "v2"}
        \/ args[i][1] = "--depth" /\ ~ParseUsize(args[i][2]).some
        \/ args[i][2] = NoArg
    THEN Err("usage")
  ELSE
    LET schema == ArgValue(args, "--schema", "v0")
        depth == IF ArgPresent(args, "--depth")
                   THEN ParseUsize(ArgValue(args, "--depth", NoArg)).val
                   ELSE MERKLE_DEPTH
    IN IF schema # "v0" /\ depth = 0
         THEN Err("depth must be > 0 for schema v1/v2")
       ELSE Ok([schema |-> schema,
                depth |-> IF schema = "v0" THEN MERKLE_DEPTH ELSE depth,
                instance_out |-> ArgValue(args, "--out-instance", "instance.bin"),
                public_inputs_out |->
                  ArgValue(args, "--out-public-inputs", "public_inputs.bin")])

\* make_membership_instance: parse_args
make_membership_instance_parse_args(args) ==
  IF \E i \in DOMAIN args :
        \/ args[i][1] \notin {"--schema", "--depth", "--out-instance",
                              "--out-public-inputs"}
        \/ args[i][1] = "--schema" /\ args[i][2] \notin {"v0", "v1", "v2"}
        \/ args[i][1] = "--depth" /\ ~ParseUsize(args[i][2]).some
        \/ args[i][2] = NoArg
    THEN Err("usage")
  ELSE
    LET schema == ArgValue(args, "--schema", "v0")
        depth == IF ArgPresent(args, "--depth")
                   THEN ParseUsize(ArgValue(args, "--depth", NoArg)).val
                   ELSE DEFAULT_V1_DEPTH
    IN IF schema # "v0" /\ depth = 0
         THEN Err("depth must be > 0 for schema v1/v2")
       ELSE Ok([schema |-> schema,
                depth |-> IF schema = "v0" THEN MERKLE_DEPTH ELSE depth,
                instance_out |-> ArgValue(args, "--out-instance", "instance.bin"),
                public_inputs_out |->
                  ArgValue(args, "--out-public-inputs", "public_inputs.bin")])

\* make_membership_instance: build_legacy_instance
build_legacy_instance ==
  LET identity == FrFrom(1)
      blinding == FrFrom(2)
      commitment == commitment_hash(identity, blinding)
      leaf == poseidon_hash_leaf(commitment)
      sibling == poseidon_hash_leaf(commitment_hash(FrFrom(3), FrFrom(4)))
      root == node_hash(leaf, sibling)
  IN [public_inputs |-> [root |-> fr_to_fixed_bytes(root),
                         commitment |-> fr_to_fixed_bytes(commitment)],
      witness |-> [identity_scalar |-> fr_to_fixed_bytes(identity),
                   blinding |-> fr_to_fixed_bytes(blinding),
                   merkle_path |-> <<[sibling |-> fr_to_fixed_bytes(sibling),
                                      is_left |-> FALSE]>>]]

\* The loop of build_v1_instance and build_v2_instance: level idx takes the
\* sibling node_hash(commitment, idx + seed) on the left at even levels.
RECURSIVE instance_path_loop(_, _, _, _, _, _, _)
instance_path_loop(commitment, current, idx, depth, seed, siblings, directions) ==
  IF idx >= depth
    THEN [current |-> current, siblings |-> siblings, directions |-> directions]
  ELSE LET sibling == node_hash(commitment, FrFrom(idx + seed))
           is_left == idx % 2 = 0
           left == IF is_left THEN sibling ELSE current
           right == IF is_left THEN current ELSE sibling
       IN instance_path_loop(commitment, node_hash(left, right), idx + 1, depth,
                             seed, Append(siblings, fr_to_fixed_bytes(sibling)),
                             Append(directions, is_left))

\* make_membership_instance: build_v1_instance
build_v1_instance(depth) ==
  LET identity == FrFrom(1)
      blinding == FrFrom(2)
      commitment == commitment_hash(identity, blinding)
      tree == instance_path_loop(commitment, poseidon_hash_leaf(commitment), 0,
                                 depth, 10, <<>>, <<>>)
  IN [version |-> MEMBERSHIP_INSTANCE_VERSION_V1,
      public_inputs |-> [version |-> MEMBERSHIP_INSTANCE_VERSION_V1,
                         depth |-> depth,
                         root |-> fr_to_fixed_bytes(tree.current),
                         commitment |-> fr_to_fixed_bytes(commitment)],
      witness |-> [version |-> MEMBERSHIP_INSTANCE_VERSION_V1,
                   depth |-> depth,
                   identity_scalar |-> fr_to_fixed_bytes(identity),
                   blinding |-> fr_to_fixed_bytes(blinding),
                   merkle_siblings |-> tree.siblings,
                   merkle_directions |-> tree.directions]]

\* make_membership_instance: build_v2_instance
build_v2_instance(depth) ==
  LET identity == FrFrom(1)
      blinding == FrFrom(2)
      commitment == commitment_hash(identity, blinding)
      domain_sep == from_be_bytes_mod_order(MEMBERSHIP_V2_DOMAIN_SEP)
      ctx_hash == from_be_bytes_mod_order(MEMBERSHIP_V2_DEFAULT_CTX_HASH)
      tree == instance_path_loop(
                commitment, poseidon_hash_leaf_v2(domain_sep, ctx_hash, commitment),
                0, depth, 20, <<>>, <<>>)
  IN [schema_version |-> MEMBERSHIP_INSTANCE_VERSION_V2,
      public_inputs |->
        [schema_version |-> MEMBERSHIP_INSTANCE_VERSION_V2,
         statement_type |-> MEMBERSHIP_STATEMENT_TYPE,
         statement_version |-> MEMBERSHIP_STATEMENT_VERSION_V2,
         depth |-> depth,
         root |-> fr_to_fixed_bytes(tree.current),
         commitment |-> fr_to_fixed_bytes(commitment),
         domain_sep |-> MEMBERSHIP_V2_DOMAIN_SEP,
         ctx_hash |-> MEMBERSHIP_V2_DEFAULT_CTX_HASH],
      witness |-> [schema_version |-> MEMBERSHIP_INSTANCE_VERSION_V2,
                   depth |-> depth,
                   identity_scalar |-> fr_to_fixed_bytes(identity),
                   blinding |-> fr_to_fixed_bytes(blinding),
                   merkle_siblings |-> tree.siblings,
                   merkle_directions |-> tree.directions]]

\* The serialized types of the instance and public-inputs records.
InstanceType(s) ==
  CASE s = "membership_v0" -> "MembershipInstanceBytes"
    [] s = "membership_v1" -> "MembershipInstanceV1Bytes"
    [] s = "membership_v2" -> "MembershipInstanceV2Bytes"
    [] s = "continuity_v1" -> "ContinuityInstanceV1"
    [] s = "continuity_v2" -> "ContinuityInstanceV2"
    [] s = "unlinkability_v2" -> "UnlinkabilityInstanceV2"

PublicInputsType(s) ==
  CASE s = "membership_v0" -> "MembershipPublicInputsBytes"
    [] s = "membership_v1" -> "MembershipPublicInputsV1Bytes"
    [] s = "membership_v2" -> "MembershipPublicInputsV2Bytes"
    [] s = "continuity_v1" -> "ContinuityPublicInputsV1"
    [] s = "continuity_v2" -> "ContinuityPublicInputsV2"
    [] s = "unlinkability_v2" -> "UnlinkabilityPublicInputsV2"

\* An instance record and its public-inputs record, written as two files.
write_pair(disk, instance_out, public_inputs_out, s, instance) ==
  write_outputs(disk, instance_out, public_inputs_out,
                FileOf(InstanceType(s), instance),
                FileOf(PublicInputsType(s), PublicInputsOf(s, instance)))

\* make_membership_instance: main
make_membership_instance_main(args, disk) ==
  LET parsed == make_membership_instance_parse_args(args)
  IN IF ~parsed.ok THEN Exit(1, <<>>, <<>>, <<>>)
     ELSE write_pair(disk, parsed.val.instance_out, parsed.val.public_inputs_out,
                     "membership_" \o parsed.val.schema,
                     CASE parsed.val.schema = "v0" -> build_legacy_instance
                       [] parsed.val.schema = "v1" ->
                            build_v1_instance(parsed.val.depth)
                       [] parsed.val.schema = "v2" ->
                            build_v2_instance(parsed.val.depth))

\* make_continuity_instance: main, with its parse_args
make_continuity_instance_main(args, disk) ==
  IF \E i \in DOMAIN args :
        \/ args[i][1] \notin {"--schema", "--out-instance", "--out-public-inputs"}
        \/ args[i][1] = "--schema" /\ args[i][2] \notin {"v1", "v2"}
        \/ args[i][2] = NoArg
    THEN Exit(1, <<>>, <<>>, <<>>)
  ELSE
    LET schema == ArgValue(args, "--schema", "v1")
        id == FrFrom(1)
        r1 == FrFrom(2)
        r2 == FrFrom(3)
        ctx_hash == fr_from_fixed_bytes(CONTINUITY_V2_DEFAULT_CTX_HASH).val
    IN write_pair(disk,
                  ArgValue(args, "--out-instance", "continuity_instance.bin"),
                  ArgValue(args, "--out-public-inputs",
                           "continuity_public_inputs.bin"),
                  "continuity_" \o schema,
                  IF schema = "v1" THEN continuity_build_instance_v1(id, r1, r2)
                  ELSE continuity_build_instance_v2(id, r1, r2, ctx_hash))

\* make_unlinkability_instance: main, with its parse_args
make_unlinkability_instance_main(args, disk) ==
  IF \E i \in DOMAIN args :
        \/ args[i][1] \notin {"--schema", "--out-instance", "--out-public-inputs"}
        \/ args[i][1] = "--schema" /\ args[i][2] # "v2"
        \/ args[i][2] = NoArg
    THEN Exit(1, <<>>, <<>>, <<>>)
  ELSE write_pair(disk,
                  ArgValue(args, "--out-instance", "unlinkability_instance.bin"),
                  ArgValue(args, "--out-public-inputs",
                           "unlinkability_public_inputs.bin"),
                  "unlinkability_v2",
                  unlinkability_build_instance_v2(
                    FrFrom(1), FrFrom(2),
                    fr_from_fixed_bytes(UNLINKABILITY_V2_DEFAULT_CTX_HASH).val))

\* The tail of every prove main: the proof is written only if the prover
\* returned one.
write_proof(disk, proof_out, prf, calls) ==
  IF ~prf.ok THEN Exit(1, <<>>, <<>>, calls)
  ELSE LET proof_file == write_serialized(disk, proof_out, FileOf("Proof", prf.val))
       IN IF ~proof_file.ok THEN Exit(1, <<>>, <<>>, calls)
          ELSE Exit(0, <<>>, <<proof_file.val>>, calls)

\* prove_membership: parse_args
prove_membership_parse_args(args) ==
  IF \E i \in DOMAIN args :
        \/ args[i][1] \notin {"--pk", "--instance", "--proof-out", "--schema"}
        \/ args[i][1] = "--schema" /\ args[i][2] \notin {"v0", "v1"}
    THEN None
  ELSE IF \/ ~ArgPresent(args, "--pk")
          \/ ~ArgPresent(args, "--instance")
          \/ ~ArgPresent(args, "--proof-out") THEN None
  ELSE Some([pk_path |-> ArgValue(args, "--pk", NoArg),
             instance_path |-> ArgValue(args, "--instance", NoArg),
             proof_out |-> ArgValue(args, "--proof-out", NoArg),
             schema |-> ArgValue(args, "--schema", "v0")])

\* prove_membership: main
prove_membership_main(args, disk) ==
  LET parsed == prove_membership_parse_args(args)
  IN IF ~parsed.some THEN Exit(1, <<>>, <<>>, <<>>)
     ELSE
       LET key == read_file(disk, parsed.val.pk_path, "ProvingKey")
           instance_bytes ==
             read_file(disk, parsed.val.instance_path,
                       InstanceType("membership_" \o parsed.val.schema))
       IN IF ~key.ok THEN Exit(1, <<>>, <<>>, <<>>)
          ELSE IF ~instance_bytes.ok THEN Exit(1, <<>>, <<>>, <<>>)
          ELSE
            LET instance ==
                  IF parsed.val.schema = "v0"
                    THEN MembershipInstanceBytes_into_instance(
                           instance_bytes.val.value)
                    ELSE MembershipInstanceV1Bytes_into_instance_with_depth(
                           instance_bytes.val.value)
            IN IF ~instance.ok THEN Exit(1, <<>>, <<>>, <<"into_instance">>)
               ELSE write_proof(disk, parsed.val.proof_out,
                                prove_membership(key.val.key, instance.val),
                                <<"into_instance", "prove">>)

\* A faulty prove_continuity main: the schema argument is not compared with v1.
prove_continuity_main_any_schema(args, disk) ==
  LET parsed ==
        IF \E i \in DOMAIN args :
              \/ args[i][1] \notin {"--pk", "--instance", "--proof-out", "--schema"}
              \/ args[i][1] = "--schema" /\ args[i][2] = NoArg
          THEN None
        ELSE IF \/ ~ArgPresent(args, "--pk")
                \/ ~ArgPresent(args, "--instance")
                \/ ~ArgPresent(args, "--proof-out") THEN None
        ELSE Some([pk_path |-> ArgValue(args, "--pk", NoArg),
                   instance_path |-> ArgValue(args, "--instance", NoArg),
                   proof_out |-> ArgValue(args, "--proof-out", NoArg),
                   schema |-> ArgValue(args, "--schema", "v1")])
  IN IF ~parsed.some THEN Exit(1, <<>>, <<>>, <<>>)
     ELSE
       LET key == read_file(disk, parsed.val.pk_path, "ProvingKey")
           instance_bytes == read_file(disk, parsed.val.instance_path,
                                       "ContinuityInstanceV1")
       IN IF ~key.ok THEN Exit(1, <<>>, <<>>, <<>>)
          ELSE IF ~instance_bytes.ok THEN Exit(1, <<>>, <<>>, <<>>)
          ELSE
            LET instance == ContinuityInstanceV1_into_instance(
                              instance_bytes.val.value)
            IN IF ~instance.ok THEN Exit(1, <<>>, <<>>, <<"into_instance">>)
               ELSE write_proof(disk, parsed.val.proof_out,
                                prove_continuity(key.val.key, instance.val),
                                <<"into_instance", "prove">>)

\* prove_continuity: main, with its parse_args (the schema is kept as a string)
prove_continuity_main(args, disk) ==
  LET parsed ==
        IF \E i \in DOMAIN args :
              \/ args[i][1] \notin {"--pk", "--instance", "--proof-out", "--schema"}
              \/ args[i][1] = "--schema" /\ args[i][2] = NoArg
          THEN None
        ELSE IF \/ ~ArgPresent(args, "--pk")
                \/ ~ArgPresent(args, "--instance")
                \/ ~ArgPresent(args, "--proof-out") THEN None
        ELSE Some([pk_path |-> ArgValue(args, "--pk", NoArg),
                   instance_path |-> ArgValue(args, "--instance", NoArg),
                   proof_out |-> ArgValue(args, "--proof-out", NoArg),
                   schema |-> ArgValue(args, "--schema", "v1")])
  IN IF ~parsed.some THEN Exit(1, <<>>, <<>>, <<>>)
     ELSE IF parsed.val.schema # "v1" THEN Exit(1, <<>>, <<>>, <<>>)
     ELSE
       LET key == read_file(disk, parsed.val.pk_path, "ProvingKey")
           instance_bytes == read_file(disk, parsed.val.instance_path,
                                       "ContinuityInstanceV1")
       IN IF ~key.ok THEN Exit(1, <<>>, <<>>, <<>>)
          ELSE IF ~instance_bytes.ok THEN Exit(1, <<>>, <<>>, <<>>)
          ELSE
            LET instance == ContinuityInstanceV1_into_instance(
                              instance_bytes.val.value)
            IN IF ~instance.ok THEN Exit(1, <<>>, <<>>, <<"into_instance">>)
               ELSE write_proof(disk, parsed.val.proof_out,
                                prove_continuity(key.val.key, instance.val),
                                <<"into_instance", "prove">>)

\* A faulty prove_unlinkability main: the proof file is created before the
\* instance is validated.
prove_unlinkability_main_create_first(args, disk) ==
  IF \/ \E i \in DOMAIN args :
          \/ args[i][1] \notin {"--pk", "--instance", "--proof-out", "--schema"}
          \/ args[i][1] = "--schema" /\ args[i][2] # "v2"
     \/ ~ArgPresent(args, "--pk")
     \/ ~ArgPresent(args, "--instance")
     \/ ~ArgPresent(args, "--proof-out")
    THEN Exit(1, <<>>, <<>>, <<>>)
  ELSE
    LET key == read_file(disk, ArgValue(args, "--pk", NoArg), "ProvingKey")
        instance_bytes == read_file(disk, ArgValue(args, "--instance", NoArg),
                                    "UnlinkabilityInstanceV2")
        created == write_serialized(disk, ArgValue(args, "--proof-out", NoArg),
                                    FileOf("Proof", <<>>))
    IN IF ~key.ok \/ ~instance_bytes.ok \/ ~created.ok
         THEN Exit(1, <<>>, <<>>, <<>>)
       ELSE
         LET instance == UnlinkabilityInstanceV2_into_instance(
                           instance_bytes.val.value)
         IN IF ~instance.ok
              THEN Exit(1, <<>>, <<created.val>>, <<"into_instance">>)
            ELSE write_proof(disk, ArgValue(args, "--proof-out", NoArg),
                             prove_unlinkability_v2(key.val.key, instance.val),
                             <<"into_instance", "prove">>)

\* prove_unlinkability: main, with its parse_args (the only schema is v2)
prove_unlinkability_main(args, disk) ==
  LET parsed ==
        IF \E i \in DOMAIN args :
              \/ args[i][1] \notin {"--pk", "--instance", "--proof-out", "--schema"}
              \/ args[i][1] = "--schema" /\ args[i][2] # "v2"
          THEN None
        ELSE IF \/ ~ArgPresent(args, "--pk")
                \/ ~ArgPresent(args, "--instance")
                \/ ~ArgPresent(args, "--proof-out") THEN None
        ELSE Some([pk_path |-> ArgValue(args, "--pk", NoArg),
                   instance_path |-> ArgValue(args, "--instance", NoArg),
                   proof_out |-> ArgValue(args, "--proof-out", NoArg),
                   schema |-> "v2"])
  IN IF ~parsed.some THEN Exit(1, <<>>, <<>>, <<>>)
     ELSE IF parsed.val.schema # "v2" THEN Exit(1, <<>>, <<>>, <<>>)
     ELSE
       LET key == read_file(disk, parsed.val.pk_path, "ProvingKey")
           instance_bytes == read_file(disk, parsed.val.instance_path,
                                       "UnlinkabilityInstanceV2")
       IN IF ~key.ok THEN Exit(1, <<>>, <<>>, <<>>)
          ELSE IF ~instance_bytes.ok THEN Exit(1, <<>>, <<>>, <<>>)
          ELSE
            LET instance == UnlinkabilityInstanceV2_into_instance(
                              instance_bytes.val.value)
            IN IF ~instance.ok THEN Exit(1, <<>>, <<>>, <<"into_instance">>)
               ELSE write_proof(disk, parsed.val.proof_out,
                                prove_unlinkability_v2(key.val.key, instance.val),
                                <<"into_instance", "prove">>)

\* The tail of every verify main: exit 0 printing `verified`, exit 2 when the
\* verifier returns false, exit 1 when it returns an error.
report_verified(outcome, calls) ==
  IF ~outcome.ok THEN Exit(1, <<>>, <<>>, calls)
  ELSE IF outcome.val THEN Exit(0, <<"verified">>, <<>>, calls)
  ELSE Exit(2, <<>>, <<>>, calls)

\* verify_membership: parse_args
verify_membership_parse_args(args) ==
  IF \E i \in DOMAIN args :
        \/ args[i][1] \notin {"--vk", "--public-inputs", "--proof", "--schema"}
        \/ args[i][1] = "--schema" /\ args[i][2] \notin {"v0", "v1", "v2"}
    THEN None
  ELSE IF \/ ~ArgPresent(args, "--vk")
          \/ ~ArgPresent(args, "--public-inputs")
          \/ ~ArgPresent(args, "--proof") THEN None
  ELSE Some([vk_path |-> ArgValue(args, "--vk", NoArg),
             inputs_path |-> ArgValue(args, "--public-inputs", NoArg),
             proof_path |-> ArgValue(args, "--proof", NoArg),
             schema |-> ArgValue(args, "--schema", "v0")])

\* A faulty verify_membership main: the declared depth must be MERKLE_DEPTH.
verify_membership_main_depth_checked(args, disk) ==
  LET parsed == verify_membership_parse_args(args)
  IN IF ~parsed.some THEN Exit(1, <<>>, <<>>, <<>>)
     ELSE
       LET key == read_file(disk, parsed.val.vk_path, "VerifyingKey")
           prf == read_file(disk, parsed.val.proof_path, "Proof")
           inputs_bytes ==
             read_file(disk, parsed.val.inputs_path,
                       PublicInputsType("membership_" \o parsed.val.schema))
       IN IF ~key.ok THEN Exit(1, <<>>, <<>>, <<>>)
          ELSE IF ~prf.ok THEN Exit(1, <<>>, <<>>, <<>>)
          ELSE IF ~inputs_bytes.ok THEN Exit(1, <<>>, <<>>, <<>>)
          ELSE
            LET public_inputs ==
                  CASE parsed.val.schema = "v0" ->
                         MembershipPublicInputsBytes_into_public_inputs(
                           inputs_bytes.val.value)
                    [] parsed.val.schema = "v1" ->
                         MembershipPublicInputsV1Bytes_into_public_inputs_with_depth(
                           inputs_bytes.val.value)
                    [] parsed.val.schema = "v2" ->
                         MembershipPublicInputsV2Bytes_into_public_inputs_with_depth(
                           inputs_bytes.val.value)
            IN IF ~public_inputs.ok
                 THEN Exit(1, <<>>, <<>>, <<"into_public_inputs">>)
               ELSE IF /\ parsed.val.schema # "v0"
                       /\ public_inputs.val.depth # MERKLE_DEPTH
                 THEN Exit(1, <<>>, <<>>, <<"into_public_inputs">>)
               ELSE report_verified(
                      CASE parsed.val.schema = "v0" ->
                             verify_membership(key.val.key, public_inputs.val,
                                               prf.val.value)
                        [] parsed.val.schema = "v1" ->
                             verify_membership(key.val.key, public_inputs.val.inputs,
                                               prf.val.value)
                        [] parsed.val.schema = "v2" ->
                             verify_membership_v2(key.val.key,
                                                  public_inputs.val.inputs,
                                                  prf.val.value),
                      <<"into_public_inputs", "verify">>)

\* verify_membership: main.  The depth into_public_inputs_with_depth returns
\* is dropped.
verify_membership_main(args, disk) ==
  LET parsed == verify_membership_parse_args(args)
  IN IF ~parsed.some THEN Exit(1, <<>>, <<>>, <<>>)
     ELSE
       LET key == read_file(disk, parsed.val.vk_path, "VerifyingKey")
           prf == read_file(disk, parsed.val.proof_path, "Proof")
           inputs_bytes ==
             read_file(disk, parsed.val.inputs_path,
                       PublicInputsType("membership_" \o parsed.val.schema))
       IN IF ~key.ok THEN Exit(1, <<>>, <<>>, <<>>)
          ELSE IF ~prf.ok THEN Exit(1, <<>>, <<>>, <<>>)
          ELSE IF ~inputs_bytes.ok THEN Exit(1, <<>>, <<>>, <<>>)
          ELSE
            LET public_inputs ==
                  CASE parsed.val.schema = "v0" ->
                         MembershipPublicInputsBytes_into_public_inputs(
                           inputs_bytes.val.value)
                    [] parsed.val.schema = "v1" ->
                         MembershipPublicInputsV1Bytes_into_public_inputs_with_depth(
                           inputs_bytes.val.value)
                    [] parsed.val.schema = "v2" ->
                         MembershipPublicInputsV2Bytes_into_public_inputs_with_depth(
                           inputs_bytes.val.value)
            IN IF ~public_inputs.ok
                 THEN Exit(1, <<>>, <<>>, <<"into_public_inputs">>)
               ELSE report_verified(
                      CASE parsed.val.schema = "v0" ->
                             verify_membership(key.val.key, public_inputs.val,
                                               prf.val.value)
                        [] parsed.val.schema = "v1" ->
                             verify_membership(key.val.key, public_inputs.val.inputs,
                                               prf.val.value)
                        [] parsed.val.schema = "v2" ->
                             verify_membership_v2(key.val.key,
                                                  public_inputs.val.inputs,
                                                  prf.val.value),
                      <<"into_public_inputs", "verify">>)

\* verify_continuity: main, with its parse_args (the schema is kept as a
\* string); the proof is read after the public inputs are validated.
verify_continuity_main(args, disk) ==
  LET parsed ==
        IF \E i \in DOMAIN args :
              \/ args[i][1] \notin {"--vk", "--public-inputs", "--proof", "--schema"}
              \/ args[i][1] = "--schema" /\ args[i][2] = NoArg
          THEN None
        ELSE IF \/ ~ArgPresent(args, "--vk")
                \/ ~ArgPresent(args, "--public-inputs")
                \/ ~ArgPresent(args, "--proof") THEN None
        ELSE Some([vk_path |-> ArgValue(args, "--vk", NoArg),
                   inputs_path |-> ArgValue(args, "--public-inputs", NoArg),
                   proof_path |-> ArgValue(args, "--proof", NoArg),
                   schema |-> ArgValue(args, "--schema", "v1")])
  IN IF ~parsed.some THEN Exit(1, <<>>, <<>>, <<>>)
     ELSE IF parsed.val.schema # "v1" THEN Exit(1, <<>>, <<>>, <<>>)
     ELSE
       LET key == read_file(disk, parsed.val.vk_path, "VerifyingKey")
           inputs_bytes == read_file(disk, parsed.val.inputs_path,
                                     "ContinuityPublicInputsV1")
           prf == read_file(disk, parsed.val.proof_path, "Proof")
       IN IF ~key.ok THEN Exit(1, <<>>, <<>>, <<>>)
          ELSE IF ~inputs_bytes.ok THEN Exit(1, <<>>, <<>>, <<>>)
          ELSE
            LET public_inputs == ContinuityPublicInputsV1_into_public_inputs(
                                   inputs_bytes.val.value)
            IN IF ~public_inputs.ok
                 THEN Exit(1, <<>>, <<>>, <<"into_public_inputs">>)
               ELSE IF ~prf.ok THEN Exit(1, <<>>, <<>>, <<"into_public_inputs">>)
               ELSE report_verified(
                      verify_continuity(key.val.key, public_inputs.val,
                                        prf.val.value),
                      <<"into_public_inputs", "verify">>)

\* A faulty verify_unlinkability main: a proof the verifier refuses is
\* reported like an error, with exit 1.
verify_unlinkability_main_refusal_as_error(args, disk) ==
  IF \/ \E i \in DOMAIN args :
          \/ args[i][1] \notin {"--vk", "--public-inputs", "--proof", "--schema"}
          \/ args[i][1] = "--schema" /\ args[i][2] # "v2"
     \/ ~ArgPresent(args, "--vk")
     \/ ~ArgPresent(args, "--public-inputs")
     \/ ~ArgPresent(args, "--proof")
    THEN Exit(1, <<>>, <<>>, <<>>)
  ELSE
    LET key == read_file(disk, ArgValue(args, "--vk", NoArg), "VerifyingKey")
        prf == read_file(disk, ArgValue(args, "--proof", NoArg), "Proof")
        inputs_bytes == read_file(disk, ArgValue(args, "--public-inputs", NoArg),
                                  "UnlinkabilityPublicInputsV2")
    IN IF ~key.ok THEN Exit(1, <<>>, <<>>, <<>>)
       ELSE IF ~prf.ok THEN Exit(1, <<>>, <<>>, <<>>)
       ELSE IF ~inputs_bytes.ok THEN Exit(1, <<>>, <<>>, <<>>)
       ELSE
         LET public_inputs == UnlinkabilityPublicInputsV2_into_public_inputs(
                                inputs_bytes.val.value)
         IN IF ~public_inputs.ok
              THEN Exit(1, <<>>, <<>>, <<"into_public_inputs">>)
            ELSE
              LET outcome == verify_unlinkability_v2(key.val.key, public_inputs.val,
                                                     prf.val.value)
              IN IF outcome.ok /\ outcome.val
                   THEN Exit(0, <<"verified">>, <<>>,
                             <<"into_public_inputs", "verify">>)
                 ELSE Exit(1, <<>>, <<>>, <<"into_public_inputs", "verify">>)

\* verify_unlinkability: main, with its parse_args (the only schema is v2)
verify_unlinkability_main(args, disk) ==
  IF \/ \E i \in DOMAIN args :
          \/ args[i][1] \notin {"--vk", "--public-inputs", "--proof", "--schema"}
          \/ args[i][1] = "--schema" /\ args[i][2] # "v2"
     \/ ~ArgPresent(args, "--vk")
     \/ ~ArgPresent(args, "--public-inputs")
     \/ ~ArgPresent(args, "--proof")
    THEN Exit(1, <<>>, <<>>, <<>>)
  ELSE
    LET key == read_file(disk, ArgValue(args, "--vk", NoArg), "VerifyingKey")
        prf == read_file(disk, ArgValue(args, "--proof", NoArg), "Proof")
        inputs_bytes == read_file(disk, ArgValue(args, "--public-inputs", NoArg),
                                  "UnlinkabilityPublicInputsV2")
    IN IF ~key.ok THEN Exit(1, <<>>, <<>>, <<>>)
       ELSE IF ~prf.ok THEN Exit(1, <<>>, <<>>, <<>>)
       ELSE IF ~inputs_bytes.ok THEN Exit(1, <<>>, <<>>, <<>>)
       ELSE
         LET public_inputs == UnlinkabilityPublicInputsV2_into_public_inputs(
                                inputs_bytes.val.value)
         IN IF ~public_inputs.ok
              THEN Exit(1, <<>>, <<>>, <<"into_public_inputs">>)
            ELSE report_verified(
                   verify_unlinkability_v2(key.val.key, public_inputs.val,
                                           prf.val.value),
                   <<"into_public_inputs", "verify">>)

(***************************************************************************)
(* Inputs: the values the operations are exercised on.                     *)
(***************************************************************************)
IdSample == {FrFrom(1), FrFrom(2)}

BlindingSample == {FrFrom(2), FrFrom(3)}

CtxSample == {FrFrom(4), from_be_bytes_mod_order(CONTINUITY_V2_DEFAULT_CTX_HASH)}

UnlinkabilityCtxSample ==
  {FrFrom(4), from_be_bytes_mod_order(UNLINKABILITY_V2_DEFAULT_CTX_HASH)}

\* A path shape says, per level, whether the sibling repeats the running
\* hash (a duplicated node) and whether it is the left child.
PathShapes(depth) == [1..depth -> BOOLEAN \X BOOLEAN]

RECURSIVE SamplePath(_, _)
SamplePath(current, shape) ==
  IF shape = <<>> THEN <<>>
  ELSE LET sibling == IF Head(shape)[1] THEN current ELSE FrFrom(7)
           is_left == Head(shape)[2]
           next == node_hash(select(is_left, sibling, current),
                             select(is_left, current, sibling))
       IN <<[sibling |-> sibling, is_left |-> is_left]>>
            \o SamplePath(next, Tail(shape))

FlipAt(path, i) == [path EXCEPT ![i].is_left = ~path[i].is_left]

SiblingBytes(path) == [i \in DOMAIN path |-> fr_to_fixed_bytes(path[i].sibling)]

Directions(path) == [i \in DOMAIN path |-> path[i].is_left]

EmptyBytes == [len |-> 0, wrap |-> 0, val |-> FrFrom(0)]

OversizedBytes == [len |-> FIELD_BYTES + 1, wrap |-> 0, val |-> FrFrom(0)]

ShortBytes == [len |-> 1, wrap |-> 0, val |-> FrFrom(1)]

\* What a 32-byte array field of a record may be overwritten with: another
\* canonical value, or the same value plus a multiple of the modulus.
FixedByteChoices(old) ==
  {fr_to_fixed_bytes(FrFrom(0)), fr_to_fixed_bytes(FrFrom(1))}
    \cup {[old EXCEPT !.wrap = w] : w \in 0..MaxWrap}

\* What a variable-length byte field may be overwritten with.
VecByteChoices(old) ==
  FixedByteChoices(old) \cup {EmptyBytes, OversizedBytes, ShortBytes}

DomainSepByteChoices(old) ==
  {Bytes32(0, FrFrom(0)), fr_to_fixed_bytes(from_be_bytes_mod_order(old)),
   MEMBERSHIP_V2_DOMAIN_SEP, CONTINUITY_V1_DOMAIN_SEP, CONTINUITY_V2_DOMAIN_SEP,
   UNLINKABILITY_V2_DOMAIN_SEP}

VersionChoices == 0..3

DepthChoices == 0..(MaxDepth + 1)

DropLast(seq) == SubSeq(seq, 1, Len(seq) - 1)

\* The records one alteration away from a continuity v1 record.
ContinuityV1Alterations(r) ==
  {[r EXCEPT !.schema_version = v] : v \in VersionChoices}
    \cup {[r EXCEPT !.id = b] : b \in FixedByteChoices(r.id)}
    \cup {[r EXCEPT !.r1 = b] : b \in FixedByteChoices(r.r1)}
    \cup {[r EXCEPT !.r2 = b] : b \in FixedByteChoices(r.r2)}
    \cup {[r EXCEPT !.c1_hash = b] : b \in FixedByteChoices(r.c1_hash) \cup {r.c2_hash}}
    \cup {[r EXCEPT !.c2_hash = b] : b \in FixedByteChoices(r.c2_hash) \cup {r.c1_hash}}
    \cup {[r EXCEPT !.domain_sep = b] : b \in DomainSepByteChoices(r.domain_sep)}

\* The records one alteration away from a continuity v2 record.
ContinuityV2Alterations(r) ==
  ContinuityV1Alterations(r)
    \cup {[r EXCEPT !.statement_type = v] : v \in VersionChoices}
    \cup {[r EXCEPT !.statement_version = v] : v \in VersionChoices}
    \cup {[r EXCEPT !.ctx_hash = b] : b \in FixedByteChoices(r.ctx_hash)}

\* The records one alteration away from an unlinkability v2 record.
UnlinkabilityV2Alterations(r) ==
  {[r EXCEPT !.schema_version = v] : v \in VersionChoices}
    \cup {[r EXCEPT !.statement_type = v] : v \in VersionChoices}
    \cup {[r EXCEPT !.statement_version = v] : v \in VersionChoices}
    \cup {[r EXCEPT !.id = b] : b \in FixedByteChoices(r.id)}
    \cup {[r EXCEPT !.blinding = b] : b \in FixedByteChoices(r.blinding)}
    \cup {[r EXCEPT !.tag = b] : b \in FixedByteChoices(r.tag)}
    \cup {[r EXCEPT !.ctx_hash = b] : b \in FixedByteChoices(r.ctx_hash)}
    \cup {[r EXCEPT !.domain_sep = b] : b \in DomainSepByteChoices(r.domain_sep)}

\* The records one alteration away from a membership v0 record.
MembershipV0Alterations(r) ==
  {[r EXCEPT !.public_inputs.root = b] : b \in VecByteChoices(r.public_inputs.root)}
    \cup {[r EXCEPT !.public_inputs.commitment = b] :
            b \in VecByteChoices(r.public_inputs.commitment)}
    \cup {[r EXCEPT !.witness.identity_scalar = b] :
            b \in VecByteChoices(r.witness.identity_scalar)}
    \cup {[r EXCEPT !.witness.blinding = b] : b \in VecByteChoices(r.witness.blinding)}
    \cup UNION {{[r EXCEPT !.witness.merkle_path[i].sibling = b] :
                   b \in VecByteChoices(r.witness.merkle_path[i].sibling)} :
                i \in DOMAIN r.witness.merkle_path}
    \cup {[r EXCEPT !.witness.merkle_path[i].is_left = ~r.witness.merkle_path[i].is_left] :
            i \in DOMAIN r.witness.merkle_path}
    \cup {[r EXCEPT !.witness.merkle_path = DropLast(r.witness.merkle_path)],
          [r EXCEPT !.witness.merkle_path =
             Append(r.witness.merkle_path,
                    [sibling |-> fr_to_fixed_bytes(FrFrom(0)), is_left |-> FALSE])]}

\* Alterations of the fields membership v1 and v2 records share.
MembershipPathAlterations(r) ==
  {[r EXCEPT !.public_inputs.depth = d] : d \in DepthChoices}
    \cup {[r EXCEPT !.witness.depth = d] : d \in DepthChoices}
    \cup {[r EXCEPT !.witness.identity_scalar = b] :
            b \in VecByteChoices(r.witness.identity_scalar)}
    \cup {[r EXCEPT !.witness.blinding = b] : b \in VecByteChoices(r.witness.blinding)}
    \cup UNION {{[r EXCEPT !.witness.merkle_siblings[i] = b] :
                   b \in VecByteChoices(r.witness.merkle_siblings[i])} :
                i \in DOMAIN r.witness.merkle_siblings}
    \cup {[r EXCEPT !.witness.merkle_directions[i] = ~r.witness.merkle_directions[i]] :
            i \in DOMAIN r.witness.merkle_directions}
    \cup {[r EXCEPT !.witness.merkle_siblings = DropLast(r.witness.merkle_siblings)],
          [r EXCEPT !.witness.merkle_directions = DropLast(r.witness.merkle_directions)],
          [r EXCEPT !.witness.merkle_siblings =
             Append(r.witness.merkle_siblings, fr_to_fixed_bytes(FrFrom(0)))],
          [r EXCEPT !.witness.merkle_directions =
             Append(r.witness.merkle_directions, FALSE)]}

\* The records one alteration away from a membership v1 record.
MembershipV1Alterations(r) ==
  MembershipPathAlterations(r)
    \cup {[r EXCEPT !.version = v] : v \in VersionChoices}
    \cup {[r EXCEPT !.public_inputs.version = v] : v \in VersionChoices}
    \cup {[r EXCEPT !.witness.version = v] : v \in VersionChoices}
    \cup {[r EXCEPT !.public_inputs.root = b] : b \in VecByteChoices(r.public_inputs.root)}
    \cup {[r EXCEPT !.public_inputs.commitment = b] :
            b \in VecByteChoices(r.public_inputs.commitment)}

\* The records one alteration away from a membership v2 record.
MembershipV2Alterations(r) ==
  MembershipPathAlterations(r)
    \cup {[r EXCEPT !.schema_version = v] : v \in VersionChoices}
    \cup {[r EXCEPT !.public_inputs.schema_version = v] : v \in VersionChoices}
    \cup {[r EXCEPT !.public_inputs.statement_type = v] : v \in VersionChoices}
    \cup {[r EXCEPT !.public_inputs.statement_version = v] : v \in VersionChoices}
    \cup {[r EXCEPT !.witness.schema_version = v] : v \in VersionChoices}
    \cup {[r EXCEPT !.public_inputs.root = b] : b \in FixedByteChoices(r.public_inputs.root)}
    \cup {[r EXCEPT !.public_inputs.commitment = b] :
            b \in FixedByteChoices(r.public_inputs.commitment)}
    \cup {[r EXCEPT !.public_inputs.ctx_hash = b] :
            b \in FixedByteChoices(r.public_inputs.ctx_hash)}
    \cup {[r EXCEPT !.public_inputs.domain_sep = b] :
            b \in DomainSepByteChoices(r.public_inputs.domain_sep)}

\* The alterations of a record's header: its version fields, its depth
\* fields and its domain separator.
HeaderAlterations(s, r) ==
  CASE s = "membership_v0" -> {}
    [] s = "membership_v1" ->
         {[r EXCEPT !.version = v] : v \in VersionChoices}
           \cup {[r EXCEPT !.public_inputs.version = v] : v \in VersionChoices}
           \cup {[r EXCEPT !.witness.version = v] : v \in VersionChoices}
           \cup {[r EXCEPT !.public_inputs.depth = d] : d \in DepthChoices}
           \cup {[r EXCEPT !.witness.depth = d] : d \in DepthChoices}
    [] s = "membership_v2" ->
         {[r EXCEPT !.schema_version = v] : v \in VersionChoices}
           \cup {[r EXCEPT !.public_inputs.schema_version = v] : v \in VersionChoices}
           \cup {[r EXCEPT !.public_inputs.statement_type = v] : v \in VersionChoices}
           \cup {[r EXCEPT !.public_inputs.statement_version = v] : v \in VersionChoices}
           \cup {[r EXCEPT !.witness.schema_version = v] : v \in VersionChoices}
           \cup {[r EXCEPT !.public_inputs.depth = d] : d \in DepthChoices}
           \cup {[r EXCEPT !.witness.depth = d] : d \in DepthChoices}
           \cup {[r EXCEPT !.public_inputs.domain_sep = b] :
                   b \in DomainSepByteChoices(r.public_inputs.domain_sep)}
    [] s = "continuity_v1" ->
         {[r EXCEPT !.schema_version = v] : v \in VersionChoices}
           \cup {[r EXCEPT !.domain_sep = b] : b \in DomainSepByteChoices(r.domain_sep)}
    [] s \in {"continuity_v2", "unlinkability_v2"} ->
         {[r EXCEPT !.schema_version = v] : v \in VersionChoices}
           \cup {[r EXCEPT !.statement_type = v] : v \in VersionChoices}
           \cup {[r EXCEPT !.statement_version = v] : v \in VersionChoices}
           \cup {[r EXCEPT !.domain_sep = b] : b \in DomainSepByteChoices(r.domain_sep)}

Alterations(s, r) ==
  CASE s = "membership_v0" -> MembershipV0Alterations(r)
    [] s = "membership_v1" -> MembershipV1Alterations(r)
    [] s = "membership_v2" -> MembershipV2Alterations(r)
    [] s = "continuity_v1" -> ContinuityV1Alterations(r)
    [] s = "continuity_v2" -> ContinuityV2Alterations(r)
    [] s = "unlinkability_v2" -> UnlinkabilityV2Alterations(r)

\* Argument lists: each of the options below is left out or given once.
OptionalFlag(flag, values) == {<<>>} \cup {<<<<flag, v>>>> : v \in values}

\* The key-path arguments of the setup commands, in both spellings.
KeyPathArgvs ==
  {a \o b : a \in OptionalFlag("--pk-out", {"pk.bin"}),
            b \in OptionalFlag("--vk-out", {"vk.bin", NoArg})}
    \cup {a \o b : a \in OptionalFlag("--out-pk", {"pk.bin"}),
                   b \in OptionalFlag("--out-vk", {"vk.bin"})}

SetupArgvs ==
  {k \o d \o s : k \in KeyPathArgvs,
                 d \in OptionalFlag("--depth", {"0", "1", "2", "x"}),
                 s \in OptionalFlag("--schema", {"v0", "v1", "v2", "v3"})}

SetupCommands == {"setup_membership", "setup_continuity", "setup_unlinkability"}

\* The files a run finds: what each path holds (an error for a file that
\* cannot be read) and the paths that cannot be created.
Disk(contents, unwritable) == [contents |-> contents, unwritable |-> unwritable]

SetupInvocations ==
  {[command |-> c, argv |-> a, files |-> Disk(<<>>, u)] :
     c \in SetupCommands, a \in SetupArgvs, u \in {{}, {"vk.bin"}}}

MakeCommands ==
  {"make_membership_instance", "make_continuity_instance",
   "make_unlinkability_instance"}

MakeArgvs ==
  {s \o d \o i \o p :
     s \in OptionalFlag("--schema", {"v0", "v1", "v2", "v3"}),
     d \in OptionalFlag("--depth", {"0", "1", "2", "x"}),
     i \in OptionalFlag("--out-instance", {"instance.bin", NoArg}),
     p \in OptionalFlag("--out-public-inputs", {"public_inputs.bin"})}

MakeInvocations ==
  {[command |-> c, argv |-> a, files |-> Disk(<<>>, u)] :
     c \in MakeCommands, a \in MakeArgvs, u \in {{}, {"public_inputs.bin"}}}

Families == {"membership", "continuity", "unlinkability"}

FamilyStatements(f) ==
  CASE f = "membership" -> {"membership_v0", "membership_v1", "membership_v2"}
    [] f = "continuity" -> {"continuity_v1", "continuity_v2"}
    [] f = "unlinkability" -> {"unlinkability_v2"}

\* The instance records the make_*_instance commands write.
MadeInstances(s) ==
  CASE s = "membership_v0" -> {build_legacy_instance}
    [] s = "membership_v1" -> {build_v1_instance(d) : d \in 1..MaxDepth}
    [] s = "membership_v2" -> {build_v2_instance(d) : d \in 1..MaxDepth}
    [] s = "continuity_v1" ->
         {continuity_build_instance_v1(FrFrom(1), FrFrom(2), FrFrom(3))}
    [] s = "continuity_v2" ->
         {continuity_build_instance_v2(
            FrFrom(1), FrFrom(2), FrFrom(3),
            from_be_bytes_mod_order(CONTINUITY_V2_DEFAULT_CTX_HASH))}
    [] s = "unlinkability_v2" ->
         {unlinkability_build_instance_v2(
            FrFrom(1), FrFrom(2),
            from_be_bytes_mod_order(UNLINKABILITY_V2_DEFAULT_CTX_HASH))}

\* The records a file may hold: the made ones and those one alteration away.
DiskRecords(s) ==
  MadeInstances(s)
    \cup UNION {Alterations(s, r) \cup HeaderAlterations(s, r) :
                  r \in MadeInstances(s)}

\* The keys the setup_* commands write; each family is also handed one key of
\* another family.
FamilyKeys(f) ==
  LET returned ==
        CASE f = "membership" ->
               {setup_membership_with_depth(d) : d \in 1..MaxDepth}
                 \cup {setup_membership_with_depth_v2(d) : d \in 1..MaxDepth}
                 \cup {setup_continuity}
          [] f = "continuity" ->
               {setup_continuity, setup_continuity_v2, setup_unlinkability_v2}
          [] f = "unlinkability" -> {setup_unlinkability_v2, setup_continuity_v2}
  IN {key.val : key \in {x \in returned : x.ok}}

\* The made instances of a statement that validation accepts, decoded.
AcceptedInstances(s) ==
  LET decoded ==
        {CASE s = "membership_v0" -> MembershipInstanceBytes_into_instance(r)
           [] s = "membership_v1" ->
                MembershipInstanceV1Bytes_into_instance_with_depth(r)
           [] s = "membership_v2" ->
                MembershipInstanceV2Bytes_into_instance_with_depth(r)
           [] s = "continuity_v1" -> ContinuityInstanceV1_into_instance(r)
           [] s = "continuity_v2" -> ContinuityInstanceV2_into_instance(r)
           [] s = "unlinkability_v2" -> UnlinkabilityInstanceV2_into_instance(r) :
           r \in MadeInstances(s)}
  IN {v.val : v \in {d \in decoded : d.ok}}

\* The proofs the provers return for the made instances.
MadeProofs(f) ==
  LET returned ==
        CASE f = "membership" ->
               {prove_membership(k, i) :
                  k \in FamilyKeys(f),
                  i \in AcceptedInstances("membership_v0")
                          \cup AcceptedInstances("membership_v1")}
                 \cup {prove_membership_v2(k, i) :
                         k \in FamilyKeys(f), i \in AcceptedInstances("membership_v2")}
          [] f = "continuity" ->
               {prove_continuity(k, i) :
                  k \in FamilyKeys(f), i \in AcceptedInstances("continuity_v1")}
                 \cup {prove_continuity_v2(k, i) :
                         k \in FamilyKeys(f), i \in AcceptedInstances("continuity_v2")}
          [] f = "unlinkability" ->
               {prove_unlinkability_v2(k, i) :
                  k \in FamilyKeys(f), i \in AcceptedInstances("unlinkability_v2")}
  IN {prf.val : prf \in {x \in returned : x.ok}}

Unreadable == Err("read")

InstanceFiles(f) ==
  {Unreadable}
    \cup UNION {{Ok(FileOf(InstanceType(s), r)) : r \in DiskRecords(s)} :
                  s \in FamilyStatements(f)}

PublicInputsFiles(f) ==
  {Unreadable}
    \cup UNION {{Ok(FileOf(PublicInputsType(s), PublicInputsOf(s, r))) :
                   r \in DiskRecords(s)} : s \in FamilyStatements(f)}

KeyFiles(f, type) ==
  {Unreadable} \cup {Ok([type |-> type, key |-> k]) : k \in FamilyKeys(f)}

ProofFiles(f) ==
  {Unreadable} \cup {Ok(FileOf("Proof", prf)) : prf \in MadeProofs(f)}

SchemaArgvs == OptionalFlag("--schema", {"v0", "v1", "v2", "v3", NoArg})

ProveArgvs ==
  {k \o i \o p \o s : k \in OptionalFlag("--pk", {"pk.bin"}),
                      i \in OptionalFlag("--instance", {"instance.bin", "missing.bin"}),
                      p \in OptionalFlag("--proof-out", {"proof.bin", NoArg}),
                      s \in SchemaArgvs}

CompleteProveArgvs ==
  {<<<<"--pk", "pk.bin">>, <<"--instance", "instance.bin">>,
     <<"--proof-out", "proof.bin">>>> \o s : s \in SchemaArgvs}

VerifyArgvs ==
  {k \o i \o p \o s : k \in OptionalFlag("--vk", {"vk.bin"}),
                      i \in OptionalFlag("--public-inputs", {"public_inputs.bin"}),
                      p \in OptionalFlag("--proof", {"proof.bin", NoArg}),
                      s \in SchemaArgvs}

CompleteVerifyArgvs ==
  {<<<<"--vk", "vk.bin">>, <<"--public-inputs", "public_inputs.bin">>,
     <<"--proof", "proof.bin">>>> \o s : s \in SchemaArgvs}

\* The files of each family, and those among them that the make_*_instance
\* commands wrote unaltered.
ProvingKeyFiles == [f \in Families |-> KeyFiles(f, "ProvingKey")]

VerifyingKeyFiles == [f \in Families |-> KeyFiles(f, "VerifyingKey")]

InstanceFilesOf == [f \in Families |-> InstanceFiles(f)]

PublicInputsFilesOf == [f \in Families |-> PublicInputsFiles(f)]

ProofFilesOf == [f \in Families |-> ProofFiles(f)]

MadeInstanceFiles ==
  [f \in Families |->
     UNION {{Ok(FileOf(InstanceType(s), r)) : r \in MadeInstances(s)} :
              s \in FamilyStatements(f)}]

MadePublicInputsFiles ==
  [f \in Families |->
     UNION {{Ok(FileOf(PublicInputsType(s), PublicInputsOf(s, r))) :
               r \in MadeInstances(s)} : s \in FamilyStatements(f)}]

\* The disks of the prove_* runs: a complete argument list meets every key
\* and instance file, any other one the readable keys and the made instances.
ProveDisk(k, i, u) == Disk(("pk.bin" :> k) @@ ("instance.bin" :> i), u)

ProveRun(f, a, k, i, u) ==
  /\ \/ a \in CompleteProveArgvs
     \/ k.ok /\ i \in MadeInstanceFiles[f] /\ u = {}
  /\ stmt = "prove_" \o f
  /\ argv = a
  /\ files = ProveDisk(k, i, u)

\* The disks of the verify_* runs: a complete argument list meets every key,
\* proof and public-inputs file, where the public inputs are altered only
\* beside a proof made under the key; any other argument list meets an
\* empty disk.
VerifyDisk(k, i, p) ==
  Disk(("vk.bin" :> k) @@ ("public_inputs.bin" :> i) @@ ("proof.bin" :> p), {})

VerifyRun(f, a, k, i, p) ==
  /\ \/ i \in MadePublicInputsFiles[f]
     \/ k.ok /\ p.ok /\ p.val.value.key = k.val.key
  /\ stmt = "verify_" \o f
  /\ argv = a
  /\ files = VerifyDisk(k, i, p)

\* The runs of the setup_* and make_*_instance commands.
Invocations == SetupInvocations \cup MakeInvocations

(***************************************************************************)
(* Initial states: a record fresh from its builder, a circuit assembled by *)
(* hand as the unit tests do, or a setup request.                          *)
(***************************************************************************)
NoValue == <<>>

NotRun == Err("not run")

MembershipBlinding == FrFrom(3)

\* The paths make_membership_instance is given, as (siblings, directions).
BuilderPaths(leaf, depths) ==
  UNION {{SamplePath(leaf, shape) : shape \in PathShapes(d)} : d \in depths}

MembershipV0Records ==
  {make_membership_instance_bytes(
       fr_to_fixed_bytes(id), fr_to_fixed_bytes(MembershipBlinding),
       SiblingBytes(path), Directions(path)).val :
     <<id, path>> \in
       UNION {{<<i, q>> : q \in BuilderPaths(
                  leaf_hash(commitment_hash(i, MembershipBlinding)),
                  {MERKLE_DEPTH})} : i \in IdSample}}

MembershipV1Records ==
  {make_membership_instance_v1_bytes(
       fr_to_fixed_bytes(id), fr_to_fixed_bytes(MembershipBlinding),
       SiblingBytes(path), Directions(path)).val :
     <<id, path>> \in
       UNION {{<<i, q>> : q \in BuilderPaths(
                  poseidon_hash_leaf(commitment_hash(i, MembershipBlinding)),
                  1..MaxDepth)} : i \in {FrFrom(1)}}}

MembershipV2Records ==
  {make_membership_instance_v2_bytes(
       fr_to_fixed_bytes(FrFrom(1)), fr_to_fixed_bytes(MembershipBlinding),
       SiblingBytes(t[2]), Directions(t[2]), t[1]).val :
     t \in UNION {{<<x, q>> : q \in BuilderPaths(
                poseidon_hash_leaf_v2(membership_v2_domain_sep_fr,
                                      from_be_bytes_mod_order(x),
                                      commitment_hash(FrFrom(1), MembershipBlinding)),
                1..MaxDepth)} :
            x \in {MEMBERSHIP_V2_DEFAULT_CTX_HASH, ShortBytes}}}

ContinuityV1Records ==
  {continuity_build_instance_v1(id, r1, r2) :
     id \in IdSample, r1 \in BlindingSample, r2 \in BlindingSample}

ContinuityV2Records ==
  {continuity_build_instance_v2(id, r1, r2, ctx_hash) :
     id \in IdSample, r1 \in BlindingSample, r2 \in BlindingSample,
     ctx_hash \in CtxSample}

UnlinkabilityV2Records ==
  {unlinkability_build_instance_v2(id, blinding, ctx_hash) :
     id \in IdSample, blinding \in BlindingSample,
     ctx_hash \in UnlinkabilityCtxSample}

BuiltRecords(s) ==
  CASE s = "membership_v0" -> MembershipV0Records
    [] s = "membership_v1" -> MembershipV1Records
    [] s = "membership_v2" -> MembershipV2Records
    [] s = "continuity_v1" -> ContinuityV1Records
    [] s = "continuity_v2" -> ContinuityV2Records
    [] s = "unlinkability_v2" -> UnlinkabilityV2Records

Statements ==
  {"membership_v0", "membership_v1", "membership_v2", "continuity_v1",
   "continuity_v2", "unlinkability_v2"}

\* Paths of every length up to MaxDepth, walked from a leaf.
CircuitPaths(leaf) == BuilderPaths(leaf, 0..MaxDepth)

\* Roots a hand-assembled circuit is given: the right one, the root of the
\* path with one direction flipped, the leaf itself, or an unrelated value.
RootChoices(leaf, path) ==
  {merkle_root_native(leaf, path), leaf, FrFrom(0)}
    \cup {merkle_root_native(leaf, FlipAt(path, i)) : i \in DOMAIN path}

MembershipLeaf == leaf_hash(commitment_hash(FrFrom(1), MembershipBlinding))

MembershipCircuits(path) ==
  {[kind |-> "MembershipCircuit",
    root |-> root,
    commitment |-> commitment,
    identity_scalar |-> FrFrom(1),
    blinding |-> MembershipBlinding,
    expected_depth |-> expected_depth,
    merkle_path |-> path] :
     root \in RootChoices(MembershipLeaf, path),
     commitment \in {commitment_hash(FrFrom(1), MembershipBlinding),
                     commitment_hash(FrFrom(2), MembershipBlinding)},
     expected_depth \in 0..MaxDepth}

MembershipDomainSeps == {membership_v2_domain_sep_fr, FrFrom(0)}

MembershipCtxs == {FrFrom(9), FrFrom(99)}

\* The v2 leaf may have been computed for another domain_sep or ctx_hash
\* than the public inputs the circuit is given.
MembershipV2Leaves ==
  {poseidon_hash_leaf_v2(d, x, commitment_hash(FrFrom(1), MembershipBlinding)) :
     d \in MembershipDomainSeps, x \in MembershipCtxs}

MembershipV2Circuits(leaf, path) ==
  {[kind |-> "MembershipCircuitV2",
    root |-> root,
    commitment |-> commitment_hash(FrFrom(1), MembershipBlinding),
    domain_sep |-> domain_sep,
    ctx_hash |-> ctx_hash,
    identity_scalar |-> FrFrom(1),
    blinding |-> MembershipBlinding,
    expected_depth |-> expected_depth,
    merkle_path |-> path] :
     root \in {merkle_root_native(leaf, path), FrFrom(0)}
                \cup {merkle_root_native(leaf, FlipAt(path, i)) : i \in DOMAIN path},
     domain_sep \in MembershipDomainSeps,
     ctx_hash \in MembershipCtxs,
     expected_depth \in 0..MaxDepth}

ContinuityDomainSeps ==
  {continuity_domain_sep_fr, continuity_domain_sep_v2_fr, FrFrom(123)}

ContinuityCircuits ==
  {[kind |-> "ContinuityCircuit",
    c1_hash |-> c1_hash, c2_hash |-> c2_hash, domain_sep |-> domain_sep,
    id |-> id, r1 |-> r1, r2 |-> r2] :
     id \in IdSample, r1 \in BlindingSample, r2 \in BlindingSample,
     c1_hash \in {commitment_hash(i, r) : i \in IdSample, r \in BlindingSample}
                   \cup {FrFrom(0)},
     c2_hash \in {commitment_hash(i, r) : i \in IdSample, r \in BlindingSample}
                   \cup {FrFrom(0)},
     domain_sep \in ContinuityDomainSeps}

ContinuityV2Circuits ==
  {[kind |-> "ContinuityCircuitV2",
    c1_hash |-> c1_hash, c2_hash |-> c2_hash, domain_sep |-> domain_sep,
    ctx_hash |-> ctx_hash, id |-> id, r1 |-> r1, r2 |-> r2] :
     id \in IdSample, r1 \in BlindingSample, r2 \in BlindingSample,
     ctx_hash \in CtxSample,
     c1_hash \in {commitment_hash_v2(i, r, x) :
                    i \in IdSample, r \in BlindingSample, x \in CtxSample}
                   \cup {FrFrom(0)},
     c2_hash \in {commitment_hash_v2(i, r, x) :
                    i \in IdSample, r \in BlindingSample, x \in CtxSample}
                   \cup {FrFrom(0)},
     domain_sep \in ContinuityDomainSeps}

UnlinkabilityDomainSeps == {unlinkability_domain_sep_v2_fr, FrFrom(123)}

UnlinkabilityV2Circuits ==
  {[kind |-> "UnlinkabilityCircuitV2",
    tag |-> tag, domain_sep |-> domain_sep, ctx_hash |-> ctx_hash,
    id |-> id, blinding |-> blinding] :
     id \in IdSample, blinding \in BlindingSample, ctx_hash \in CtxSample,
     domain_sep \in UnlinkabilityDomainSeps,
     tag \in {tag_hash(d, x, commitment_hash(i, b)) :
                d \in UnlinkabilityDomainSeps, x \in CtxSample,
                i \in IdSample, b \in BlindingSample} \cup {FrFrom(0)}}

\* Field elements handed to the encoder.
FieldElements ==
  IdSample \cup {FrFrom(0), membership_v2_domain_sep_fr,
                 commitment_hash(FrFrom(1), FrFrom(2))}

\* Byte strings handed to the decoders: empty, shorter than 32 bytes, 32
\* bytes below and at or above the modulus, and longer than 32 bytes.
FieldByteStrings ==
  {EmptyBytes, OversizedBytes, ShortBytes,
   [len |-> FIELD_BYTES - 1, wrap |-> 0, val |-> FrFrom(2)]}
    \cup {Bytes32(w, v) : w \in 0..MaxWrap, v \in FieldElements}

SetupRequests ==
  {[statement |-> "membership_v1", depth |-> d] : d \in 0..MaxDepth}
    \cup {[statement |-> "membership_v2", depth |-> d] : d \in 0..MaxDepth}
    \cup {[statement |-> "continuity_v1", depth |-> 0],
          [statement |-> "unlinkability_v2", depth |-> 0]}

(***************************************************************************)
(* The state machine.  pc is the stage of the run: a record is built,      *)
(* possibly altered once, validated, proved and verified, as the prove_*   *)
(* and verify_* binaries chain the calls; a circuit is synthesized on a    *)
(* fresh constraint system; a setup request yields a key or an error.      *)
(***************************************************************************)
Init ==
  /\ result = NotRun
  /\ cs = NoValue
  /\ pk = NoValue
  /\ proof = NotRun
  /\ vk = NoValue
  /\ verifier_inputs = NoValue
  /\ verified = NotRun
  /\ exit = NoValue
  /\ \/ /\ pc = "built"
        /\ argv = NoValue /\ files = NoValue
        /\ stmt \in Statements
        /\ record \in BuiltRecords(stmt)
        /\ circuit = NoValue
     \/ /\ pc = "circuit"
        /\ argv = NoValue /\ files = NoValue
        /\ stmt = "circuit"
        /\ record = NoValue
        /\ \/ \E path \in CircuitPaths(MembershipLeaf) :
                 circuit \in MembershipCircuits(path)
           \/ \E leaf \in MembershipV2Leaves :
                 \E path \in CircuitPaths(leaf) :
                    circuit \in MembershipV2Circuits(leaf, path)
           \/ circuit \in ContinuityCircuits
           \/ circuit \in ContinuityV2Circuits
           \/ circuit \in UnlinkabilityV2Circuits
     \/ /\ pc = "setup"
        /\ argv = NoValue /\ files = NoValue
        /\ \E req \in SetupRequests :
              /\ stmt = req.statement
              /\ record = [depth |-> req.depth]
        /\ circuit = NoValue
     \/ /\ pc = "element"
        /\ argv = NoValue /\ files = NoValue
        /\ stmt = "codec"
        /\ \E v \in FieldElements : record = [value |-> v]
        /\ circuit = NoValue
     \/ /\ pc = "bytes"
        /\ argv = NoValue /\ files = NoValue
        /\ stmt = "codec"
        /\ \E b \in FieldByteStrings : record = [bytes |-> b]
        /\ circuit = NoValue
     \/ /\ pc = "invoked"
        /\ \E run \in Invocations :
              stmt = run.command /\ argv = run.argv /\ files = run.files
        /\ record = NoValue
        /\ circuit = NoValue
     \/ /\ pc = "invoked"
        /\ \E f \in Families :
              \/ \E a \in ProveArgvs, k \in ProvingKeyFiles[f],
                    i \in InstanceFilesOf[f], u \in {{}, {"proof.bin"}} :
                    ProveRun(f, a, k, i, u)
              \/ \E a \in CompleteVerifyArgvs, k \in VerifyingKeyFiles[f],
                    i \in PublicInputsFilesOf[f], p \in ProofFilesOf[f] :
                    VerifyRun(f, a, k, i, p)
              \/ \E a \in VerifyArgvs :
                    stmt = "verify_" \o f /\ argv = a /\ files = Disk(<<>>, {})
        /\ record = NoValue
        /\ circuit = NoValue

\* A record on disk is edited before it is handed to the prover.
TamperRecord ==
  /\ pc = "built"
  /\ \E altered \in Alterations(stmt, record) \ {record} :
        record' = altered
  /\ pc' = "tampered"
  /\ UNCHANGED <<cli, stmt, result, circuit, cs, pk, proof, vk, verifier_inputs, verified>>

\* An edited record has its header edited as well.
TamperHeader ==
  /\ pc = "tampered"
  /\ \E altered \in HeaderAlterations(stmt, record) \ {record} :
        record' = altered
  /\ pc' = "retampered"
  /\ UNCHANGED <<cli, stmt, result, circuit, cs, pk, proof, vk, verifier_inputs, verified>>

Validated(v) ==
  /\ pc \in {"built", "tampered", "retampered"}
  /\ result' = v
  /\ pc' = "validated"
  /\ UNCHANGED <<cli, stmt, record, circuit, cs, pk, proof, vk, verifier_inputs, verified>>

ValidateMembershipV0 ==
  /\ stmt = "membership_v0"
  /\ Validated(MembershipInstanceBytes_into_instance(record))

ValidateMembershipV1 ==
  /\ stmt = "membership_v1"
  /\ Validated(MembershipInstanceV1Bytes_into_instance_with_depth(record))

ValidateMembershipV2 ==
  /\ stmt = "membership_v2"
  /\ Validated(MembershipInstanceV2Bytes_into_instance_with_depth(record))

ValidateContinuityV1 ==
  /\ stmt = "continuity_v1"
  /\ Validated(ContinuityInstanceV1_into_instance(record))

ValidateContinuityV2 ==
  /\ stmt = "continuity_v2"
  /\ Validated(ContinuityInstanceV2_into_instance(record))

ValidateUnlinkabilityV2 ==
  /\ stmt = "unlinkability_v2"
  /\ Validated(UnlinkabilityInstanceV2_into_instance(record))

\* A key file on disk: the key and the depth its setup was run for (0 for
\* the statements without a depth).
KeyFile(depth, key) == [depth |-> depth, key |-> key]

\* The depths of the proving keys a membership prover may be handed for a
\* path of the given length: that length, and another one.
KeyDepths(depth) == {depth, (depth % MaxDepth) + 1}

\* The verifying keys a verifier may be handed: pk.vk of every setup.
VerifyingKeys ==
  {KeyFile(d, setup_membership_with_depth(d).val) : d \in 1..MaxDepth}
    \cup {KeyFile(d, setup_membership_with_depth_v2(d).val) : d \in 1..MaxDepth}
    \cup {KeyFile(0, setup_continuity.val), KeyFile(0, setup_continuity_v2.val),
          KeyFile(0, setup_unlinkability_v2.val)}

\* into_public_inputs / into_public_inputs_with_depth of the statement's
\* public-inputs record type.
into_public_inputs(s, self) ==
  CASE s = "membership_v0" -> MembershipPublicInputsBytes_into_public_inputs(self)
    [] s = "membership_v1" ->
         MembershipPublicInputsV1Bytes_into_public_inputs_with_depth(self)
    [] s = "membership_v2" ->
         MembershipPublicInputsV2Bytes_into_public_inputs_with_depth(self)
    [] s = "continuity_v1" -> ContinuityPublicInputsV1_into_public_inputs(self)
    [] s = "continuity_v2" -> ContinuityPublicInputsV2_into_public_inputs(self)
    [] s = "unlinkability_v2" -> UnlinkabilityPublicInputsV2_into_public_inputs(self)

\* The verifier's side: the public-inputs record is validated on its own.
ValidatePublicInputs ==
  /\ pc \in {"built", "tampered", "retampered"}
  /\ result' = into_public_inputs(stmt, PublicInputsOf(stmt, record))
  /\ pc' = "inputs_validated"
  /\ UNCHANGED <<cli, stmt, record, circuit, cs, pk, proof, vk, verifier_inputs, verified>>

\* The prover runs only on an instance validation returned; it synthesizes
\* the circuit built from that instance.
Proved(c, key, prf) ==
  /\ pc = "validated"
  /\ result.ok
  /\ circuit' = c
  /\ cs' = generate_constraints(c)
  /\ pk' = key
  /\ proof' = prf
  /\ pc' = "proved"
  /\ UNCHANGED <<cli, stmt, record, result, vk, verifier_inputs, verified>>

ProveMembership ==
  /\ stmt \in {"membership_v0", "membership_v1"}
  /\ pc = "validated" /\ result.ok
  /\ \E depth \in KeyDepths(Len(result.val.witness.merkle_path)) :
        LET key == setup_membership_with_depth(depth).val
        IN Proved(membership_build_circuit(result.val), KeyFile(depth, key),
                  prove_membership(key, result.val))

ProveMembershipV2 ==
  /\ stmt = "membership_v2"
  /\ pc = "validated" /\ result.ok
  /\ \E depth \in KeyDepths(Len(result.val.witness.merkle_path)) :
        LET key == setup_membership_with_depth_v2(depth).val
        IN Proved(membership_build_circuit_v2(result.val), KeyFile(depth, key),
                  prove_membership_v2(key, result.val))

ProveContinuity ==
  /\ stmt = "continuity_v1"
  /\ pc = "validated" /\ result.ok
  /\ Proved(continuity_build_circuit(result.val),
            KeyFile(0, setup_continuity.val),
            prove_continuity(setup_continuity.val, result.val))

ProveContinuityV2 ==
  /\ stmt = "continuity_v2"
  /\ pc = "validated" /\ result.ok
  /\ Proved(continuity_build_circuit_v2(result.val),
            KeyFile(0, setup_continuity_v2.val),
            prove_continuity_v2(setup_continuity_v2.val, result.val))

ProveUnlinkabilityV2 ==
  /\ stmt = "unlinkability_v2"
  /\ pc = "validated" /\ result.ok
  /\ Proved(unlinkability_build_circuit_v2(result.val),
            KeyFile(0, setup_unlinkability_v2.val),
            prove_unlinkability_v2(setup_unlinkability_v2.val, result.val))

\* The verifier checks the proof against the instance's public inputs with
\* the verifying key it is handed.
Verified(named, key, outcome) ==
  /\ pc = "proved"
  /\ proof.ok
  /\ vk' = key
  /\ verifier_inputs' = named
  /\ verified' = outcome
  /\ pc' = "verified"
  /\ UNCHANGED <<cli, stmt, record, result, circuit, cs, pk, proof>>

VerifyMembership ==
  /\ stmt \in {"membership_v0", "membership_v1"}
  /\ pc = "proved" /\ proof.ok
  /\ \E k \in VerifyingKeys :
        Verified(verify_membership_inputs(result.val.public_inputs), k,
                 verify_membership(k.key, result.val.public_inputs, proof.val))

VerifyMembershipV2 ==
  /\ stmt = "membership_v2"
  /\ pc = "proved" /\ proof.ok
  /\ \E k \in VerifyingKeys :
        Verified(verify_membership_v2_inputs(result.val.public_inputs), k,
                 verify_membership_v2(k.key, result.val.public_inputs, proof.val))

VerifyContinuity ==
  /\ stmt = "continuity_v1"
  /\ pc = "proved" /\ proof.ok
  /\ \E k \in VerifyingKeys :
        Verified(verify_continuity_inputs(result.val.public_inputs), k,
                 verify_continuity(k.key, result.val.public_inputs, proof.val))

VerifyContinuityV2 ==
  /\ stmt = "continuity_v2"
  /\ pc = "proved" /\ proof.ok
  /\ \E k \in VerifyingKeys :
        Verified(verify_continuity_v2_inputs(result.val.public_inputs), k,
                 verify_continuity_v2(k.key, result.val.public_inputs, proof.val))

VerifyUnlinkabilityV2 ==
  /\ stmt = "unlinkability_v2"
  /\ pc = "proved" /\ proof.ok
  /\ \E k \in VerifyingKeys :
        Verified(verify_unlinkability_v2_inputs(result.val.public_inputs), k,
                 verify_unlinkability_v2(k.key, result.val.public_inputs,
                                         proof.val))

\* circuit.generate_constraints(cs.clone()) on a fresh constraint system.
Synthesize ==
  /\ pc = "circuit"
  /\ cs' = generate_constraints(circuit)
  /\ pc' = "synthesized"
  /\ UNCHANGED <<cli, stmt, record, result, circuit, pk, proof, vk, verifier_inputs, verified>>

KeyGenerated(c, key) ==
  /\ pc = "setup"
  /\ circuit' = c
  /\ cs' = generate_constraints(c)
  /\ result' = key
  /\ pc' = "keyed"
  /\ UNCHANGED <<cli, stmt, record, pk, proof, vk, verifier_inputs, verified>>

SetupMembership ==
  /\ stmt = "membership_v1"
  /\ pc = "setup"
  /\ KeyGenerated(setup_membership_circuit(record.depth),
                  setup_membership_with_depth(record.depth))

SetupMembershipV2 ==
  /\ stmt = "membership_v2"
  /\ pc = "setup"
  /\ KeyGenerated(setup_membership_circuit_v2(record.depth),
                  setup_membership_with_depth_v2(record.depth))

SetupContinuity ==
  /\ stmt = "continuity_v1"
  /\ KeyGenerated(setup_continuity_circuit, setup_continuity)

SetupUnlinkabilityV2 ==
  /\ stmt = "unlinkability_v2"
  /\ KeyGenerated(setup_unlinkability_circuit_v2, setup_unlinkability_v2)

\* fr_to_fixed_bytes(&value)
EncodeField ==
  /\ pc = "element"
  /\ record' = [value |-> record.value, bytes |-> fr_to_fixed_bytes(record.value)]
  /\ pc' = "bytes"
  /\ UNCHANGED <<cli, stmt, result, circuit, cs, pk, proof, vk, verifier_inputs, verified>>

\* fr_from_bytes(label, &bytes)
DecodeBytes ==
  /\ pc = "bytes"
  /\ result' = fr_from_bytes(record.bytes)
  /\ pc' = "decoded"
  /\ UNCHANGED <<cli, stmt, record, circuit, cs, pk, proof, vk, verifier_inputs, verified>>

\* fr_from_fixed_bytes(label, &bytes): the argument is a [u8; 32].
DecodeFixedBytes ==
  /\ pc = "bytes"
  /\ record.bytes.len = FIELD_BYTES
  /\ result' = fr_from_fixed_bytes(record.bytes)
  /\ pc' = "decoded_fixed"
  /\ UNCHANGED <<cli, stmt, record, circuit, cs, pk, proof, vk, verifier_inputs, verified>>

\* A command-line program runs to its exit.
Exited(command, outcome) ==
  /\ pc = "invoked"
  /\ stmt = command
  /\ exit' = outcome
  /\ pc' = "exited"
  /\ UNCHANGED <<argv, files, stmt, record, result, circuit, cs, pk, proof, vk, verifier_inputs, verified>>

Next ==
  \/ TamperRecord
  \/ TamperHeader
  \/ ValidateMembershipV0
  \/ ValidateMembershipV1
  \/ ValidateMembershipV2
  \/ ValidateContinuityV1
  \/ ValidateContinuityV2
  \/ ValidateUnlinkabilityV2
  \/ ValidatePublicInputs
  \/ ProveMembership
  \/ ProveMembershipV2
  \/ ProveContinuity
  \/ ProveContinuityV2
  \/ ProveUnlinkabilityV2
  \/ VerifyMembership
  \/ VerifyMembershipV2
  \/ VerifyContinuity
  \/ VerifyContinuityV2
  \/ VerifyUnlinkabilityV2
  \/ Synthesize
  \/ SetupMembership
  \/ SetupMembershipV2
  \/ SetupContinuity
  \/ SetupUnlinkabilityV2
  \/ EncodeField
  \/ DecodeBytes
  \/ DecodeFixedBytes
  \/ Exited("setup_membership", setup_membership_main(argv, files))
  \/ Exited("setup_continuity", setup_continuity_main(argv, files))
  \/ Exited("setup_unlinkability", setup_unlinkability_main(argv, files))
  \/ Exited("make_membership_instance", make_membership_instance_main(argv, files))
  \/ Exited("make_continuity_instance", make_continuity_instance_main(argv, files))
  \/ Exited("make_unlinkability_instance", make_unlinkability_instance_main(argv, files))
  \/ Exited("prove_membership", prove_membership_main(argv, files))
  \/ Exited("prove_continuity", prove_continuity_main(argv, files))
  \/ Exited("prove_unlinkability", prove_unlinkability_main(argv, files))
  \/ Exited("verify_membership", verify_membership_main(argv, files))
  \/ Exited("verify_continuity", verify_continuity_main(argv, files))
  \/ Exited("verify_unlinkability", verify_unlinkability_main(argv, files))

Spec == Init /\ [][Next]_vars

(***************************************************************************)
(* Properties of schema validation.                                        *)
(***************************************************************************)
MembershipStatements == {"membership_v0", "membership_v1", "membership_v2"}

ContinuityStatements == {"continuity_v1", "continuity_v2"}

\* The leaf a membership instance's path starts from.
MembershipLeafOf(s, instance) ==
  LET commitment == commitment_hash(instance.witness.identity_scalar,
                                    instance.witness.blinding)
  IN IF s = "membership_v2"
       THEN poseidon_hash_leaf_v2(instance.public_inputs.domain_sep,
                                  instance.public_inputs.ctx_hash, commitment)
       ELSE leaf_hash(commitment)

\* commitment == H(1, id, blinding) and the root recomputed from the leaf and
\* the path is the public root.
MembershipDerivedValuesMatch(s, instance) ==
  /\ instance.public_inputs.commitment =
       commitment_hash(instance.witness.identity_scalar, instance.witness.blinding)
  /\ instance.public_inputs.root =
       merkle_root_native(MembershipLeafOf(s, instance), instance.witness.merkle_path)

\* C1 (as stated): membership schema validation (v0 into_instance, v1 and v2
\* into_instance_with_depth) returns an error whenever the record's commitment
\* differs from H(1, id, blinding) or the root recomputed from the leaf and the
\* Merkle path differs from the record's root, so the prover is never reached
\* with such a record.
C1_ValidationRecomputesDerivedValues ==
  (/\ stmt \in MembershipStatements
   /\ pc \in {"validated", "proved", "verified"}
   /\ result.ok)
    => MembershipDerivedValuesMatch(stmt, result.val)

\* The commitment H(1, id, r) (v1) or H(1, id, r, ctx_hash) (v2) of the field
\* elements a continuity record's bytes decode to.
ContinuityCommitmentOf(s, rec, r) ==
  IF s = "continuity_v2"
    THEN commitment_hash_v2(from_be_bytes_mod_order(rec.id),
                            from_be_bytes_mod_order(r),
                            from_be_bytes_mod_order(rec.ctx_hash))
    ELSE commitment_hash(from_be_bytes_mod_order(rec.id), from_be_bytes_mod_order(r))

\* The record is a builder's record in which only the named field differs.
OnlyFieldAltered(field) ==
  \E orig \in BuiltRecords(stmt) :
     /\ record[field] # orig[field]
     /\ record = [orig EXCEPT ![field] = record[field]]

\* ... and the field decodes to a different field element than before.
OnlyFieldAlteredInValue(field) ==
  \E orig \in BuiltRecords(stmt) :
     /\ from_be_bytes_mod_order(record[field]) # from_be_bytes_mod_order(orig[field])
     /\ record = [orig EXCEPT ![field] = record[field]]

\* C2 (as stated): replacing the id of a valid continuity record while keeping
\* c1_hash and c2_hash is rejected at schema validation.
C2_IdReplacementRejected ==
  (/\ stmt \in ContinuityStatements
   /\ pc = "validated"
   /\ OnlyFieldAltered("id"))
    => ~result.ok

\* C2 (amended): ContinuityInstanceV1/V2::into_instance returns an error
\* whenever the field element c1_hash decodes to differs from the commitment
\* of the decoded id and r1 (v2: and ctx_hash), or likewise for c2_hash and
\* r2; replacing the id by bytes that decode to a different field element,
\* keeping c1_hash and c2_hash, is rejected.
C2_CommitmentMismatchRejected ==
  (stmt \in ContinuityStatements /\ pc = "validated")
    => /\ (\/ from_be_bytes_mod_order(record.c1_hash)
                # ContinuityCommitmentOf(stmt, record, record.r1)
           \/ from_be_bytes_mod_order(record.c2_hash)
                # ContinuityCommitmentOf(stmt, record, record.r2))
          => ~result.ok
       /\ OnlyFieldAlteredInValue("id") => ~result.ok

\* A continuity record whose id was replaced by another identity has been
\* validated and rejected for its commitment.
C2_Witness ==
  /\ stmt = "continuity_v1"
  /\ pc = "validated"
  /\ OnlyFieldAlteredInValue("id")
  /\ ~result.ok
  /\ result.err = "c1_hash does not match commitment hash"

UnlinkabilityTagFields == {"tag", "ctx_hash", "id", "blinding"}

\* C3 (as stated): altering the tag, the ctx_hash, the id or the blinding of
\* a record produced by build_instance_v2 makes validation fail.
C3_AlteredRecordRejected ==
  (/\ stmt = "unlinkability_v2"
   /\ pc = "validated"
   /\ \E field \in UnlinkabilityTagFields : OnlyFieldAltered(field))
    => ~result.ok

\* C3 (amended): UnlinkabilityInstanceV2::into_instance returns an error
\* whenever the field element the tag decodes to differs from
\* H(domain_sep, ctx_hash, H(1, id, blinding)) of the decoded fields; altering
\* the tag, ctx_hash, id or blinding of a build_instance_v2 record to bytes
\* that decode to a different field element makes validation fail.
C3_TagMismatchRejected ==
  (stmt = "unlinkability_v2" /\ pc = "validated")
    => /\ from_be_bytes_mod_order(record.tag)
            # tag_hash(from_be_bytes_mod_order(record.domain_sep),
                       from_be_bytes_mod_order(record.ctx_hash),
                       commitment_hash(from_be_bytes_mod_order(record.id),
                                       from_be_bytes_mod_order(record.blinding)))
          => ~result.ok
       /\ (\E field \in UnlinkabilityTagFields : OnlyFieldAlteredInValue(field))
          => ~result.ok

\* An unlinkability record whose ctx_hash was altered has been validated and
\* rejected for its tag.
C3_Witness ==
  /\ stmt = "unlinkability_v2"
  /\ pc = "validated"
  /\ OnlyFieldAlteredInValue("ctx_hash")
  /\ ~result.ok
  /\ result.err = "tag does not match computed value"

(***************************************************************************)
(* Properties of the circuits.                                             *)
(***************************************************************************)
MembershipCircuitKinds == {"MembershipCircuit", "MembershipCircuitV2"}

DepthMismatch(c) ==
  c.expected_depth = 0 \/ Len(c.merkle_path) # c.expected_depth

\* C4: synthesis of MembershipCircuit and MembershipCircuitV2 fails with
\* Unsatisfiable when expected_depth is 0 or the path length differs from
\* expected_depth, before any public input or witness is allocated; setup
\* with depth 0 returns that error instead of a key.
C4_DepthGuardFailsBeforeAllocation ==
  /\ (/\ pc = "synthesized"
      /\ circuit.kind \in MembershipCircuitKinds
      /\ DepthMismatch(circuit))
       => /\ cs.err = "Unsatisfiable"
          /\ cs.allocs = <<>>
          /\ cs.constraints = <<>>
  /\ (/\ pc = "keyed"
      /\ stmt \in {"membership_v1", "membership_v2"}
      /\ record.depth = 0)
       => /\ ~result.ok
          /\ result.err = "Unsatisfiable"
          /\ cs.allocs = <<>>

\* A two-level path for expected_depth 1 was synthesized and refused.
C4_Witness ==
  /\ pc = "synthesized"
  /\ circuit.kind = "MembershipCircuitV2"
  /\ circuit.expected_depth = 1
  /\ Len(circuit.merkle_path) = 2
  /\ cs.err = "Unsatisfiable"

\* The fold of a path as the specification words it: H(3, sibling, current)
\* when is_left, H(3, current, sibling) otherwise, in path order.
RECURSIVE PathFold(_, _)
PathFold(current, path) ==
  IF path = <<>> THEN current
  ELSE PathFold(IF Head(path).is_left
                  THEN poseidon_hash_native(<<FrFrom(3), Head(path).sibling, current>>)
                  ELSE poseidon_hash_native(<<FrFrom(3), current, Head(path).sibling>>),
                Tail(path))

\* C5: a MembershipCircuit whose path length equals expected_depth >= 1 is
\* satisfied exactly when commitment = H(1, id, blinding) and root is the fold
\* of the path from H(2, commitment, 0).
C5_SatisfiedExactlyOnFold ==
  (/\ pc = "synthesized"
   /\ circuit.kind = "MembershipCircuit"
   /\ ~DepthMismatch(circuit))
    => (is_satisfied(cs)
          <=> /\ circuit.commitment =
                   poseidon_hash_native(<<FrFrom(1), circuit.identity_scalar,
                                          circuit.blinding>>)
              /\ circuit.root =
                   PathFold(poseidon_hash_native(<<FrFrom(2), circuit.commitment,
                                                   FrFrom(0)>>),
                            circuit.merkle_path))

\* A depth-2 circuit with a left sibling then a right sibling is satisfied.
C5_Witness ==
  /\ pc = "synthesized"
  /\ circuit.kind = "MembershipCircuit"
  /\ circuit.expected_depth = 2
  /\ Len(circuit.merkle_path) = 2
  /\ circuit.merkle_path[1].is_left
  /\ ~circuit.merkle_path[2].is_left
  /\ is_satisfied(cs)

\* The leaf the circuit hashes from its witnesses (and, for v2, from its
\* domain_sep and ctx_hash inputs).
CircuitLeaf(c) ==
  LET commitment == poseidon_hash_native(<<FrFrom(1), c.identity_scalar, c.blinding>>)
  IN IF c.kind = "MembershipCircuitV2"
       THEN poseidon_hash_native(<<c.domain_sep, c.ctx_hash, commitment>>)
       ELSE poseidon_hash_native(<<FrFrom(2), commitment, FrFrom(0)>>)

\* The running hash that meets the sibling of level i.
RunningHash(c, i) == PathFold(CircuitLeaf(c), SubSeq(c.merkle_path, 1, i - 1))

FlippedAt(c, i) == [c EXCEPT !.merkle_path = FlipAt(c.merkle_path, i)]

\* C6 (as stated): for every satisfied membership circuit, swapping is_left
\* at any single level, all else unchanged, leaves the system unsatisfied.
C6_AnyFlipUnsatisfied ==
  (/\ pc = "synthesized"
   /\ circuit.kind \in MembershipCircuitKinds
   /\ is_satisfied(cs))
    => \A i \in DOMAIN circuit.merkle_path :
          ~is_satisfied(generate_constraints(FlippedAt(circuit, i)))

\* C6 (amended): for every satisfied membership circuit, swapping is_left at
\* a level whose sibling differs from the running hash of that level, all else
\* unchanged, leaves the system unsatisfied; where the sibling equals the
\* running hash the swap changes nothing and the system stays satisfied.
C6_FlipOfDistinctSiblingUnsatisfied ==
  (/\ pc = "synthesized"
   /\ circuit.kind \in MembershipCircuitKinds
   /\ is_satisfied(cs))
    => \A i \in DOMAIN circuit.merkle_path :
          is_satisfied(generate_constraints(FlippedAt(circuit, i)))
            <=> circuit.merkle_path[i].sibling = RunningHash(circuit, i)

\* A satisfied depth-2 circuit whose siblings both differ from the running
\* hash: flipping either level is refused.
C6_Witness ==
  /\ pc = "synthesized"
  /\ circuit.kind = "MembershipCircuitV2"
  /\ Len(circuit.merkle_path) = 2
  /\ is_satisfied(cs)
  /\ \A i \in 1..2 :
        /\ circuit.merkle_path[i].sibling # RunningHash(circuit, i)
        /\ ~is_satisfied(generate_constraints(FlippedAt(circuit, i)))

\* Field elements a public input may be replaced by.
ReplacementElements ==
  MembershipDomainSeps \cup MembershipCtxs \cup {FrFrom(1), continuity_domain_sep_fr}

\* C7: MembershipCircuitV2 is satisfied only if domain_sep is the element of
\* MEMBERSHIP_V2_DOMAIN_SEP and the path starts from the leaf
\* H(domain_sep, ctx_hash, commitment); from a satisfied assignment, replacing
\* the domain_sep or the ctx_hash public input by a different element leaves
\* the system unsatisfied.
C7_DomainSepAndCtxBound ==
  (/\ pc = "synthesized"
   /\ circuit.kind = "MembershipCircuitV2"
   /\ is_satisfied(cs))
    => /\ circuit.domain_sep = from_be_bytes_mod_order(MEMBERSHIP_V2_DOMAIN_SEP)
       /\ circuit.root =
            PathFold(poseidon_hash_native(<<circuit.domain_sep, circuit.ctx_hash,
                                            circuit.commitment>>),
                     circuit.merkle_path)
       /\ \A d \in ReplacementElements \ {circuit.domain_sep} :
             ~is_satisfied(generate_constraints([circuit EXCEPT !.domain_sep = d]))
       /\ \A x \in ReplacementElements \ {circuit.ctx_hash} :
             ~is_satisfied(generate_constraints([circuit EXCEPT !.ctx_hash = x]))

\* A satisfied v2 circuit for ctx_hash 9 that is refused with ctx_hash 99.
C7_Witness ==
  /\ pc = "synthesized"
  /\ circuit.kind = "MembershipCircuitV2"
  /\ circuit.ctx_hash = FrFrom(9)
  /\ is_satisfied(cs)
  /\ ~is_satisfied(generate_constraints([circuit EXCEPT !.ctx_hash = FrFrom(99)]))

\* C8: ContinuityCircuit is satisfied exactly when c1_hash = H(1, id, r1),
\* c2_hash = H(1, id, r2) for the one id witness and domain_sep is the v1
\* constant; ContinuityCircuitV2 exactly when c1_hash = H(1, id, r1, ctx_hash),
\* c2_hash = H(1, id, r2, ctx_hash) and domain_sep is the v2 constant.  A wrong
\* domain_sep alone leaves the system unsatisfied.
C8_ContinuitySatisfiedExactly ==
  /\ (pc = "synthesized" /\ circuit.kind = "ContinuityCircuit")
       => (is_satisfied(cs)
             <=> /\ circuit.c1_hash =
                      poseidon_hash_native(<<FrFrom(1), circuit.id, circuit.r1>>)
                 /\ circuit.c2_hash =
                      poseidon_hash_native(<<FrFrom(1), circuit.id, circuit.r2>>)
                 /\ circuit.domain_sep =
                      from_be_bytes_mod_order(CONTINUITY_V1_DOMAIN_SEP))
  /\ (pc = "synthesized" /\ circuit.kind = "ContinuityCircuitV2")
       => (is_satisfied(cs)
             <=> /\ circuit.c1_hash =
                      poseidon_hash_native(<<FrFrom(1), circuit.id, circuit.r1,
                                             circuit.ctx_hash>>)
                 /\ circuit.c2_hash =
                      poseidon_hash_native(<<FrFrom(1), circuit.id, circuit.r2,
                                             circuit.ctx_hash>>)
                 /\ circuit.domain_sep =
                      from_be_bytes_mod_order(CONTINUITY_V2_DOMAIN_SEP))

\* Both commitments are right, with different r1 and r2, and only the
\* domain_sep is wrong: the system is unsatisfied.
C8_Witness ==
  /\ pc = "synthesized"
  /\ circuit.kind = "ContinuityCircuit"
  /\ circuit.r1 # circuit.r2
  /\ circuit.c1_hash = commitment_hash(circuit.id, circuit.r1)
  /\ circuit.c2_hash = commitment_hash(circuit.id, circuit.r2)
  /\ circuit.domain_sep = FrFrom(123)
  /\ ~is_satisfied(cs)

\* C9: UnlinkabilityCircuitV2 is satisfied exactly when
\* tag = H(domain_sep, ctx_hash, H(1, id, blinding)) and domain_sep is the
\* element of UNLINKABILITY_V2_DOMAIN_SEP; a tag consistent with another
\* domain_sep is still refused.
C9_UnlinkabilitySatisfiedExactly ==
  (pc = "synthesized" /\ circuit.kind = "UnlinkabilityCircuitV2")
    => (is_satisfied(cs)
          <=> /\ circuit.tag =
                   poseidon_hash_native(
                     <<circuit.domain_sep, circuit.ctx_hash,
                       poseidon_hash_native(<<FrFrom(1), circuit.id,
                                              circuit.blinding>>)>>)
              /\ circuit.domain_sep =
                   from_be_bytes_mod_order(UNLINKABILITY_V2_DOMAIN_SEP))

\* The tag was computed for domain_sep 123, which the circuit is given: the
\* system is unsatisfied.
C9_Witness ==
  /\ pc = "synthesized"
  /\ circuit.kind = "UnlinkabilityCircuitV2"
  /\ circuit.domain_sep = FrFrom(123)
  /\ circuit.tag = tag_hash(circuit.domain_sep, circuit.ctx_hash,
                            commitment_hash(circuit.id, circuit.blinding))
  /\ ~is_satisfied(cs)

\* The public-input order the specification lists per circuit.
ListedPublicInputs(kind) ==
  CASE kind = "MembershipCircuit" -> <<"root", "commitment">>
    [] kind = "MembershipCircuitV2" -> <<"root", "commitment", "domain_sep", "ctx_hash">>
    [] kind = "ContinuityCircuit" -> <<"c1_hash", "c2_hash", "domain_sep">>
    [] kind = "ContinuityCircuitV2" -> <<"c1_hash", "c2_hash", "domain_sep", "ctx_hash">>
    [] kind = "UnlinkabilityCircuitV2" -> <<"tag", "domain_sep", "ctx_hash">>

Names(named) == [i \in DOMAIN named |-> named[i].name]

\* The new_input allocations of a synthesis, in order.
InputAllocations(sys) == SelectSeq(sys.allocs, LAMBDA a : a.kind = "input")

InputsBeforeWitnesses(sys) ==
  \A i, j \in DOMAIN sys.allocs :
     (sys.allocs[i].kind = "input" /\ sys.allocs[j].kind = "witness") => i < j

\* C10: the public-input vector the verifier assembles has the length and
\* order of the circuit's new_input allocations (membership v0/v1
\* [root, commitment]; v2 [root, commitment, domain_sep, ctx_hash]; continuity
\* v1 [c1_hash, c2_hash, domain_sep]; unlinkability v2
\* [tag, domain_sep, ctx_hash]), and every circuit allocates all its public
\* inputs before any witness.
C10_VerifierInputsFollowAllocation ==
  /\ (pc \in {"synthesized", "keyed", "proved", "verified"} /\ cs.err = "none")
       => /\ Names(InputAllocations(cs)) = ListedPublicInputs(circuit.kind)
          /\ InputsBeforeWitnesses(cs)
  /\ pc = "verified"
       => /\ Len(verifier_inputs) = Len(InputAllocations(cs))
          /\ Names(verifier_inputs) = Names(InputAllocations(cs))
          /\ Values(verifier_inputs) = Values(InputAllocations(cs))

\* An unlinkability proof was verified against [tag, domain_sep, ctx_hash].
C10_Witness ==
  /\ pc = "verified"
  /\ stmt = "unlinkability_v2"
  /\ Names(verifier_inputs) = <<"tag", "domain_sep", "ctx_hash">>
  /\ verified.ok
  /\ verified.val

(***************************************************************************)
(* Properties of the proof orchestration.                                  *)
(***************************************************************************)
\* The setup a membership statement's keys come from.
MembershipSetup(s, depth) ==
  IF s = "membership_v2" THEN setup_membership_with_depth_v2(depth)
  ELSE setup_membership_with_depth(depth)

MembershipPathLength == Len(result.val.witness.merkle_path)

\* C11: for a membership instance of depth d >= 1 whose commitment is
\* H(1, id, blinding) and whose root is the reduction of its path, setup for
\* depth d, then prove, then verify with that key returns Ok(true), for the
\* v0/v1 and the v2 functions; and the dummy circuit of setup for depth d
\* allocates the same public inputs, witnesses and constraints as the
\* circuit built from any validated instance with d path entries.
C11_SetupProveVerifyRoundTrip ==
  /\ (/\ pc = "verified"
      /\ stmt \in MembershipStatements
      /\ MembershipDerivedValuesMatch(stmt, result.val)
      /\ pk = KeyFile(MembershipPathLength,
                      MembershipSetup(stmt, MembershipPathLength).val)
      /\ vk = pk)
       => verified = Ok(TRUE)
  /\ (pc \in {"proved", "verified"} /\ stmt \in MembershipStatements)
       => /\ MembershipPathLength >= 1
          /\ MembershipSetup(stmt, MembershipPathLength).ok
          /\ Shape(circuit.kind, cs) =
               MembershipSetup(stmt, MembershipPathLength).val

C11_Witness ==
  /\ pc = "verified"
  /\ stmt = "membership_v1"
  /\ MembershipPathLength = 2
  /\ MembershipDerivedValuesMatch(stmt, result.val)
  /\ pk = KeyFile(2, setup_membership_with_depth(2).val)
  /\ vk = pk
  /\ verified = Ok(TRUE)

\* C12: a membership proof produced with the proving key of depth d never
\* verifies as true under the verifying key setup produced for another depth
\* of the same statement.
C12_KeysAreDepthSpecific ==
  (/\ pc = "verified"
   /\ stmt \in MembershipStatements
   /\ vk.key.kind = pk.key.kind
   /\ vk.depth # pk.depth)
    => verified # Ok(TRUE)

C12_Witness ==
  /\ pc = "verified"
  /\ stmt = "membership_v1"
  /\ MembershipDerivedValuesMatch(stmt, result.val)
  /\ MembershipPathLength = 1
  /\ pk = KeyFile(1, setup_membership_with_depth(1).val)
  /\ vk = KeyFile(2, setup_membership_with_depth(2).val)
  /\ verified = Ok(FALSE)

\* The circuits with a domain_sep public input.
DomainSeparatedKinds ==
  {"MembershipCircuitV2", "ContinuityCircuit", "ContinuityCircuitV2",
   "UnlinkabilityCircuitV2"}

\* The statement with the same number of public inputs.
SameArityKind(kind) ==
  CASE kind = "ContinuityCircuit" -> "UnlinkabilityCircuitV2"
    [] kind = "UnlinkabilityCircuitV2" -> "ContinuityCircuit"
    [] kind = "MembershipCircuitV2" -> "ContinuityCircuitV2"
    [] kind = "ContinuityCircuitV2" -> "MembershipCircuitV2"

\* The synthesis of a statement's setup circuit.
SetupSynthesis(kind) ==
  generate_constraints(
    CASE kind = "ContinuityCircuit" -> setup_continuity_circuit
      [] kind = "UnlinkabilityCircuitV2" -> setup_unlinkability_circuit_v2
      [] kind = "MembershipCircuitV2" -> setup_membership_circuit_v2(MERKLE_DEPTH)
      [] kind = "ContinuityCircuitV2" -> setup_continuity_circuit_v2)

\* The position of domain_sep among the public inputs of a synthesis.
DomainSepIndex(sys) ==
  CHOOSE i \in DOMAIN InputAllocations(sys) :
     InputAllocations(sys)[i].name = "domain_sep"

\* The field element of a statement's own domain separator.
DomainSepConstant(kind) ==
  CASE kind = "ContinuityCircuit" -> from_be_bytes_mod_order(CONTINUITY_V1_DOMAIN_SEP)
    [] kind = "UnlinkabilityCircuitV2" ->
         from_be_bytes_mod_order(UNLINKABILITY_V2_DOMAIN_SEP)
    [] kind = "MembershipCircuitV2" -> from_be_bytes_mod_order(MEMBERSHIP_V2_DOMAIN_SEP)
    [] kind = "ContinuityCircuitV2" -> from_be_bytes_mod_order(CONTINUITY_V2_DOMAIN_SEP)

\* The circuits of the same-arity statement given the public-input vector x
\* and a witness of the sample.
CrossCircuits(kind, x) ==
  CASE kind = "ContinuityCircuit" ->
         {[kind |-> "UnlinkabilityCircuitV2",
           tag |-> x[1], domain_sep |-> x[2], ctx_hash |-> x[3],
           id |-> id, blinding |-> blinding] :
            id \in IdSample, blinding \in BlindingSample}
    [] kind = "UnlinkabilityCircuitV2" ->
         {[kind |-> "ContinuityCircuit",
           c1_hash |-> x[1], c2_hash |-> x[2], domain_sep |-> x[3],
           id |-> id, r1 |-> r1, r2 |-> r2] :
            id \in IdSample, r1 \in BlindingSample, r2 \in BlindingSample}
    [] kind = "MembershipCircuitV2" ->
         {[kind |-> "ContinuityCircuitV2",
           c1_hash |-> x[1], c2_hash |-> x[2], domain_sep |-> x[3],
           ctx_hash |-> x[4], id |-> id, r1 |-> r1, r2 |-> r2] :
            id \in IdSample, r1 \in BlindingSample, r2 \in BlindingSample}
    [] kind = "ContinuityCircuitV2" ->
         {[kind |-> "MembershipCircuitV2",
           root |-> x[1], commitment |-> x[2], domain_sep |-> x[3],
           ctx_hash |-> x[4], identity_scalar |-> t[1], blinding |-> t[2],
           expected_depth |-> Len(t[3]), merkle_path |-> t[3]] :
            t \in IdSample \X BlindingSample
                    \X (CircuitPaths(poseidon_hash_leaf_v2(x[3], x[4], x[2])) \ {<<>>})}
    [] OTHER -> {}

\* A proof never verifies as true under the key of another statement, and a
\* public-input vector that satisfies one circuit satisfies no circuit of the
\* statement with the same number of public inputs.
CrossStatementRejected ==
  /\ (pc = "verified" /\ vk.key.kind # circuit.kind) => verified # Ok(TRUE)
  /\ (pc \in {"synthesized", "proved", "verified"} /\ is_satisfied(cs))
       => \A c \in CrossCircuits(circuit.kind, InstanceAssignment(cs)) :
             ~is_satisfied(generate_constraints(c))

\* A satisfied circuit's domain_sep input holds its statement's own constant,
\* which is the constant of no statement with the same number of inputs.
DomainSepConstrained ==
  (/\ pc \in {"synthesized", "proved", "verified"}
   /\ circuit.kind \in DomainSeparatedKinds
   /\ is_satisfied(cs))
    => /\ InstanceAssignment(cs)[DomainSepIndex(cs)] = DomainSepConstant(circuit.kind)
       /\ DomainSepConstant(circuit.kind) # DomainSepConstant(SameArityKind(circuit.kind))

\* C13 (as stated): a proof made for one statement never verifies as true
\* under the verifying key of another, and for statements with the same number
\* of public inputs no vector satisfies both circuits, each circuit
\* constraining the domain_sep input at the same index to a different constant.
C13_DomainSepAtSameIndex ==
  /\ CrossStatementRejected
  /\ DomainSepConstrained
  /\ (/\ pc \in {"synthesized", "proved", "verified"}
      /\ circuit.kind \in DomainSeparatedKinds
      /\ cs.err = "none")
       => DomainSepIndex(cs) = DomainSepIndex(SetupSynthesis(SameArityKind(circuit.kind)))

\* C13 (amended): the same, with the positions the circuits have: domain_sep
\* is public input 3 of membership v2, continuity v1 and continuity v2, and
\* public input 2 of unlinkability v2; so continuity v1 and unlinkability v2
\* constrain different positions of their 3-input vectors.
C13_CrossStatementRejected ==
  /\ CrossStatementRejected
  /\ DomainSepConstrained
  /\ (/\ pc \in {"synthesized", "proved", "verified"}
      /\ circuit.kind \in DomainSeparatedKinds
      /\ cs.err = "none")
       => DomainSepIndex(cs) = IF circuit.kind = "UnlinkabilityCircuitV2" THEN 2 ELSE 3

C13_Witness ==
  /\ pc = "verified"
  /\ stmt = "continuity_v1"
  /\ is_satisfied(cs)
  /\ pk = KeyFile(0, setup_continuity.val)
  /\ vk = KeyFile(0, setup_unlinkability_v2.val)
  /\ DomainSepIndex(cs) = 3
  /\ DomainSepIndex(SetupSynthesis("UnlinkabilityCircuitV2")) = 2
  /\ verified = Ok(FALSE)

(***************************************************************************)
(* Properties of the field codec.                                          *)
(***************************************************************************)
\* C14: fr_from_bytes returns an error for an empty input and for an input
\* longer than 32 bytes; for 1 to 32 bytes it returns the big-endian integer
\* reduced modulo the field order, so a value at or above the modulus decodes
\* to the same element as the value minus the modulus, and a short input
\* decodes to the same element as its left-zero-extended 32-byte form.
C14_FrFromBytesLengthAndReduction ==
  pc = "decoded"
    => /\ result.ok <=> (1 <= record.bytes.len /\ record.bytes.len <= FIELD_BYTES)
       /\ result.ok
            => /\ result.val = from_be_bytes_mod_order(record.bytes)
               /\ result = fr_from_bytes([record.bytes EXCEPT !.wrap = 0])
               /\ result = fr_from_bytes(fixed_bytes32(record.bytes).val)

C14_Witness ==
  /\ pc = "decoded"
  /\ record.bytes.len = FIELD_BYTES
  /\ record.bytes.wrap > 0
  /\ result = Ok(FrFrom(1))

VersionFieldsMatch(s, r, whole) ==
  CASE s = "membership_v0" -> TRUE
    [] s = "membership_v1" ->
         /\ PublicInputsOf(s, r).version = 1
         /\ whole => (r.version = 1 /\ r.witness.version = 1)
    [] s = "membership_v2" ->
         /\ PublicInputsOf(s, r).schema_version = 2
         /\ PublicInputsOf(s, r).statement_type = 1
         /\ PublicInputsOf(s, r).statement_version = 2
         /\ whole => (r.schema_version = 2 /\ r.witness.schema_version = 2)
    [] s = "continuity_v1" -> r.schema_version = 1
    [] s = "continuity_v2" ->
         r.schema_version = 2 /\ r.statement_type = 3 /\ r.statement_version = 2
    [] s = "unlinkability_v2" ->
         r.schema_version = 2 /\ r.statement_type = 2 /\ r.statement_version = 2

\* C16: a v2 record (instance or public inputs) is accepted only if
\* schema_version = 2, statement_type is its family's constant (membership 1,
\* unlinkability 2, continuity 3) and statement_version = 2, and a v1 record
\* only if its version field is 1.
C16_VersionFieldsChecked ==
  (pc \in {"validated", "inputs_validated"} /\ result.ok)
    => VersionFieldsMatch(stmt, record, pc = "validated")

C16_Witness ==
  /\ pc = "inputs_validated"
  /\ stmt = "unlinkability_v2"
  /\ record.schema_version = 2
  /\ record.statement_type = 3
  /\ record.statement_version = 2
  /\ ~result.ok

\* The statements whose records carry a domain_sep field.
DomainSeparatedStatements ==
  {"membership_v2", "continuity_v1", "continuity_v2", "unlinkability_v2"}

\* The 32-byte constant of a statement and version.
OwnDomainSep(s) ==
  CASE s = "membership_v2" -> MEMBERSHIP_V2_DOMAIN_SEP
    [] s = "continuity_v1" -> CONTINUITY_V1_DOMAIN_SEP
    [] s = "continuity_v2" -> CONTINUITY_V2_DOMAIN_SEP
    [] s = "unlinkability_v2" -> UNLINKABILITY_V2_DOMAIN_SEP

\* C17: a record with a domain_sep field (instance or public inputs) is
\* accepted only if its domain_sep bytes are the constant of its own statement
\* and version; a continuity v2 instance with the v1 separator is rejected.
C17_DomainSepBytesChecked ==
  (/\ pc \in {"validated", "inputs_validated"}
   /\ stmt \in DomainSeparatedStatements
   /\ result.ok)
    => PublicInputsOf(stmt, record).domain_sep = OwnDomainSep(stmt)

C17_Witness ==
  /\ pc = "validated"
  /\ stmt = "continuity_v2"
  /\ record.domain_sep = CONTINUITY_V1_DOMAIN_SEP
  /\ VersionFieldsMatch(stmt, record, TRUE)
  /\ ~result.ok

(***************************************************************************)
(* Properties of membership validation.                                    *)
(***************************************************************************)
DepthStatements == {"membership_v1", "membership_v2"}

\* C18: into_instance_with_depth on a v1 or v2 membership record succeeds
\* only if public_inputs.depth = witness.depth = number of merkle_siblings =
\* number of merkle_directions and that depth is > 0; the returned depth is
\* the length of the returned merkle_path, whose i-th entry is (decoded
\* sibling i, direction i).
C18_DepthFieldsAgree ==
  (pc = "validated" /\ stmt \in DepthStatements /\ result.ok)
    => /\ record.public_inputs.depth > 0
       /\ record.witness.depth = record.public_inputs.depth
       /\ Len(record.witness.merkle_siblings) = record.public_inputs.depth
       /\ Len(record.witness.merkle_directions) = record.public_inputs.depth
       /\ result.val.depth = record.public_inputs.depth
       /\ result.val.depth = Len(result.val.witness.merkle_path)
       /\ \A i \in 1..result.val.depth :
             result.val.witness.merkle_path[i] =
               [sibling |-> from_be_bytes_mod_order(record.witness.merkle_siblings[i]),
                is_left |-> record.witness.merkle_directions[i]]

C18_Witness ==
  /\ pc = "validated"
  /\ stmt = "membership_v2"
  /\ result.ok
  /\ result.val.depth = 2
  /\ record.witness.merkle_directions = <<TRUE, FALSE>>
  /\ result.val.witness.merkle_path[1].is_left
  /\ ~result.val.witness.merkle_path[2].is_left

\* The step of the documented validation order that an error of the
\* membership instance validators reports.
ValidationStep(msg) ==
  CASE msg \in {"instance.version: version mismatch",
                "public_inputs.version: version mismatch",
                "witness.version: version mismatch",
                "instance.schema_version: version mismatch",
                "public_inputs.schema_version: version mismatch",
                "witness.schema_version: version mismatch",
                "statement_type or statement_version mismatch"} -> 1
    [] msg = "public_inputs.domain_sep: domain_sep mismatch" -> 2
    [] msg = "public_inputs.depth must be > 0" -> 3
    [] msg \in {"instance.depth mismatch", "witness.depth mismatch",
                "merkle_siblings length mismatch",
                "merkle_directions length mismatch"} -> 4
    [] msg \in {"empty field bytes", "oversized field bytes"} -> 5
    [] OTHER -> 6

\* The byte fields of a membership v1/v2 record that are decoded.
DecodedFields(s, r) ==
  {r.public_inputs.root, r.public_inputs.commitment,
   r.witness.identity_scalar, r.witness.blinding}
    \cup {r.witness.merkle_siblings[i] : i \in 1..Len(r.witness.merkle_siblings)}
    \cup (IF s = "membership_v2"
            THEN {r.public_inputs.domain_sep, r.public_inputs.ctx_hash}
            ELSE {})

\* The steps of the documented order at which a membership v1/v2 record is
\* defective.
DefectiveSteps(s, r) ==
  {n \in 1..5 :
     \/ n = 1 /\ ~VersionFieldsMatch(s, r, TRUE)
     \/ n = 2 /\ s = "membership_v2"
              /\ ~membership_ensure_domain_sep(r.public_inputs.domain_sep)
     \/ n = 3 /\ r.public_inputs.depth = 0
     \/ n = 4 /\ \/ r.witness.depth # r.public_inputs.depth
                 \/ Len(r.witness.merkle_siblings) # r.public_inputs.depth
                 \/ Len(r.witness.merkle_directions) # r.public_inputs.depth
     \/ n = 5 /\ \E b \in DecodedFields(s, r) : b.len = 0 \/ b.len > FIELD_BYTES}

\* C19: when a membership v1/v2 record is rejected, the error returned is
\* the one of the earliest step of the documented order (versions and
\* statement type, domain separator, depth > 0, witness depth and counts,
\* field lengths) at which the record is defective.
C19_FirstFailureInDocumentedOrder ==
  (pc = "validated" /\ stmt \in DepthStatements /\ ~result.ok)
    => \A n \in DefectiveSteps(stmt, record) : ValidationStep(result.err) <= n

(***************************************************************************)
(* Properties of the unlinkability tag.                                    *)
(***************************************************************************)
\* The unlinkability records validation is given: the ones build_instance_v2
\* produces and the ones with a field altered.
UnlinkabilityCandidates ==
  UnlinkabilityV2Records
    \cup UNION {UnlinkabilityV2Alterations(r) : r \in UnlinkabilityV2Records}

AcceptedUnlinkabilityRecords ==
  {r \in UnlinkabilityCandidates : UnlinkabilityInstanceV2_into_instance(r).ok}

SameTagInputBytes(a, b) ==
  a.id = b.id /\ a.blinding = b.blinding /\ a.ctx_hash = b.ctx_hash

\* The decoded (id, blinding, ctx_hash) of a validated instance.
TagInputs(instance) ==
  <<instance.witness.id, instance.witness.blinding, instance.public_inputs.ctx_hash>>

\* C20 (as stated): two accepted unlinkability records with the same id,
\* blinding and ctx_hash bytes carry the same tag bytes, and two that differ
\* in the bytes of any of the three carry different tag bytes.
C20_TagBytesFollowInputBytes ==
  (pc = "validated" /\ stmt = "unlinkability_v2" /\ result.ok)
    => \A other \in AcceptedUnlinkabilityRecords :
         SameTagInputBytes(record, other) <=> record.tag = other.tag

\* C20 (amended): two accepted unlinkability instances whose id, blinding
\* and ctx_hash decode to the same field elements carry tags that decode to
\* the same field element, and two whose decoded id, blinding or ctx_hash
\* differ carry tags that decode to different field elements.
C20_TagFollowsDecodedInputs ==
  (pc = "validated" /\ stmt = "unlinkability_v2" /\ result.ok)
    => \A other \in AcceptedUnlinkabilityRecords :
         LET instance == UnlinkabilityInstanceV2_into_instance(other).val
         IN /\ result.val.public_inputs.tag = from_be_bytes_mod_order(record.tag)
            /\ TagInputs(result.val) = TagInputs(instance)
                 <=> result.val.public_inputs.tag = instance.public_inputs.tag

\* An accepted unlinkability record whose id bytes are an alias of the
\* canonical ones, next to an accepted record with the same decoded id and
\* blinding, another ctx_hash and another tag, and next to an accepted record
\* with other id bytes and the same tag.
C20_Witness ==
  /\ pc = "validated"
  /\ stmt = "unlinkability_v2"
  /\ result.ok
  /\ record.id.wrap > 0
  /\ \E other \in AcceptedUnlinkabilityRecords :
        LET instance == UnlinkabilityInstanceV2_into_instance(other).val
        IN /\ instance.witness = result.val.witness
           /\ instance.public_inputs.ctx_hash # result.val.public_inputs.ctx_hash
           /\ instance.public_inputs.tag # result.val.public_inputs.tag
  /\ \E other \in AcceptedUnlinkabilityRecords :
        other.id # record.id /\ other.tag = record.tag

(***************************************************************************)
(* Properties of the continuity commitments.                               *)
(***************************************************************************)
\* The commitment to id under r of a validated continuity instance.
InstanceCommitment(s, instance, r) ==
  IF s = "continuity_v2"
    THEN commitment_hash_v2(instance.witness.id, r, instance.public_inputs.ctx_hash)
    ELSE commitment_hash(instance.witness.id, r)

\* C21: in every continuity instance validation accepts (v1 or v2), c1_hash
\* and c2_hash are the commitments to the one id of the instance under r1 and
\* under r2, and c1_hash differs from c2_hash unless r1 = r2.
C21_CommitmentsBoundToOneId ==
  (pc = "validated" /\ stmt \in ContinuityStatements /\ result.ok)
    => LET instance == result.val
       IN /\ instance.public_inputs.c1_hash =
                InstanceCommitment(stmt, instance, instance.witness.r1)
          /\ instance.public_inputs.c2_hash =
                InstanceCommitment(stmt, instance, instance.witness.r2)
          /\ instance.witness.id = from_be_bytes_mod_order(record.id)
          /\ instance.witness.r1 # instance.witness.r2
               => instance.public_inputs.c1_hash # instance.public_inputs.c2_hash

\* A continuity v1 instance with r1 # r2 has been accepted, its two
\* commitments different.
C21_Witness ==
  /\ pc = "validated"
  /\ stmt = "continuity_v1"
  /\ result.ok
  /\ result.val.witness.r1 # result.val.witness.r2
  /\ result.val.public_inputs.c1_hash # result.val.public_inputs.c2_hash

(***************************************************************************)
(* Properties of the instance builders.                                    *)
(***************************************************************************)
PairBuilderStatements == {"continuity_v1", "continuity_v2", "unlinkability_v2"}

\* The witnesses whose builder call returns the record.
BuilderArguments(s, r) ==
  CASE s = "continuity_v1" ->
         {w \in [id : IdSample, r1 : BlindingSample, r2 : BlindingSample] :
            continuity_build_instance_v1(w.id, w.r1, w.r2) = r}
    [] s = "continuity_v2" ->
         {w \in [id : IdSample, r1 : BlindingSample, r2 : BlindingSample] :
            \E ctx_hash \in CtxSample :
               continuity_build_instance_v2(w.id, w.r1, w.r2, ctx_hash) = r}
    [] s = "unlinkability_v2" ->
         {w \in [id : IdSample, blinding : BlindingSample] :
            \E ctx_hash \in UnlinkabilityCtxSample :
               unlinkability_build_instance_v2(w.id, w.blinding, ctx_hash) = r}

\* into_instance of the statement's instance record type.
into_instance(s, self) ==
  CASE s = "continuity_v1" -> ContinuityInstanceV1_into_instance(self)
    [] s = "continuity_v2" -> ContinuityInstanceV2_into_instance(self)
    [] s = "unlinkability_v2" -> UnlinkabilityInstanceV2_into_instance(self)

\* C25: the pair (instance, public_inputs) a continuity v1/v2 or
\* unlinkability v2 builder returns is accepted by into_instance and by
\* into_public_inputs, the decoded witness is the builder's arguments, and the
\* public inputs decoded from the instance record are those decoded from the
\* public-inputs record.
C25_BuilderPairAccepted ==
  (stmt \in PairBuilderStatements /\ record \in BuiltRecords(stmt))
    => /\ pc = "validated"
            => /\ result.ok
               /\ BuilderArguments(stmt, record) = {result.val.witness}
               /\ into_public_inputs(stmt, PublicInputsOf(stmt, record))
                    = Ok(result.val.public_inputs)
       /\ pc = "inputs_validated"
            => /\ result.ok
               /\ into_instance(stmt, record).ok
               /\ result.val = into_instance(stmt, record).val.public_inputs

\* The record of build_instance_v1(id, r1, r2) with r1 # r2 has been
\* accepted by into_instance, with the arguments as its witness.
C25_Witness ==
  /\ pc = "validated"
  /\ stmt = "continuity_v1"
  /\ \E id \in IdSample, r1 \in BlindingSample, r2 \in BlindingSample :
        /\ r1 # r2
        /\ record = continuity_build_instance_v1(id, r1, r2)
        /\ result = Ok([public_inputs |-> [c1_hash |-> commitment_hash(id, r1),
                                           c2_hash |-> commitment_hash(id, r2),
                                           domain_sep |-> continuity_domain_sep_fr],
                        witness |-> [id |-> id, r1 |-> r1, r2 |-> r2]])

(***************************************************************************)
(* Properties of the hash helpers.                                         *)
(***************************************************************************)
\* The values the synthesis of a circuit computes with the in-circuit sponge:
\* the left-hand sides of the equalities that compare a hash with an input.
CircuitHashes(c, sys) ==
  CASE c.kind = "MembershipCircuit" ->
         <<sys.constraints[1].lhs, sys.constraints[2].lhs>>
    [] c.kind = "MembershipCircuitV2" ->
         <<sys.constraints[1].lhs, sys.constraints[3].lhs>>
    [] c.kind \in {"ContinuityCircuit", "ContinuityCircuitV2"} ->
         <<sys.constraints[1].lhs, sys.constraints[2].lhs>>
    [] c.kind = "UnlinkabilityCircuitV2" -> <<sys.constraints[1].lhs>>

\* The same values computed with the native helpers from the circuit's
\* assignment.
NativeHashes(c) ==
  CASE c.kind = "MembershipCircuit" ->
         LET commitment == commitment_hash(c.identity_scalar, c.blinding)
         IN <<commitment, merkle_root_native(leaf_hash(commitment), c.merkle_path)>>
    [] c.kind = "MembershipCircuitV2" ->
         LET commitment == commitment_hash(c.identity_scalar, c.blinding)
         IN <<commitment,
              merkle_root_native(
                poseidon_hash_leaf_v2(c.domain_sep, c.ctx_hash, commitment),
                c.merkle_path)>>
    [] c.kind = "ContinuityCircuit" ->
         <<commitment_hash(c.id, c.r1), commitment_hash(c.id, c.r2)>>
    [] c.kind = "ContinuityCircuitV2" ->
         <<commitment_hash_v2(c.id, c.r1, c.ctx_hash),
           commitment_hash_v2(c.id, c.r2, c.ctx_hash)>>
    [] c.kind = "UnlinkabilityCircuitV2" ->
         <<tag_hash(c.domain_sep, c.ctx_hash, commitment_hash(c.id, c.blinding))>>

\* The element sequence each native helper absorbs.
AbsorbedSequences ==
  \A a \in FieldElements, b \in FieldElements, d \in FieldElements :
     /\ commitment_hash(a, b) = poseidon_hash_native(<<FrFrom(1), a, b>>)
     /\ leaf_hash(a) = poseidon_hash_native(<<FrFrom(2), a, FrFrom(0)>>)
     /\ poseidon_hash_leaf_v2(a, b, d) = poseidon_hash_native(<<a, b, d>>)
     /\ node_hash(a, b) = poseidon_hash_native(<<FrFrom(3), a, b>>)
     /\ commitment_hash_v2(a, b, d) = poseidon_hash_native(<<FrFrom(1), a, b, d>>)
     /\ tag_hash(a, b, d) = poseidon_hash_native(<<a, b, d>>)
     /\ leaf_hash(a) = poseidon_hash_leaf(a)
     /\ node_hash(a, b) = poseidon_hash_node(a, b)

\* C26: every hash a synthesized circuit computes equals the native helper's
\* value on the same assignment (commitment [1, id, r]; leaf [2, c, 0]; leaf
\* v2 [domain_sep, ctx_hash, c]; node [3, left, right]; continuity v2
\* commitment [1, id, r, ctx_hash]; tag [domain_sep, ctx_hash, c]), and
\* leaf_hash = poseidon_hash_leaf and node_hash = poseidon_hash_node.
C26_NativeHashesMatchCircuit ==
  /\ AbsorbedSequences
  /\ (pc \in {"synthesized", "keyed", "proved", "verified"} /\ cs.err = "none")
       => CircuitHashes(circuit, cs) = NativeHashes(circuit)

\* A membership v2 circuit with a two-level path, one sibling on each side,
\* has been synthesized for a proof and is satisfied.
C26_Witness ==
  /\ pc = "proved"
  /\ stmt = "membership_v2"
  /\ Len(circuit.merkle_path) = 2
  /\ circuit.merkle_path[1].is_left # circuit.merkle_path[2].is_left
  /\ is_satisfied(cs)
  /\ CircuitHashes(circuit, cs) = <<circuit.commitment, circuit.root>>

(***************************************************************************)
(* Properties of the circuits built from instances.                        *)
(***************************************************************************)
\* Membership instances with paths of every length from 0 to MaxDepth.
SampleInstances ==
  {[public_inputs |-> [root |-> merkle_root_native(MembershipLeaf, path),
                       commitment |-> commitment_hash(FrFrom(1), MembershipBlinding),
                       domain_sep |-> membership_v2_domain_sep_fr,
                       ctx_hash |-> FrFrom(4)],
    witness |-> [identity_scalar |-> FrFrom(1),
                 blinding |-> MembershipBlinding,
                 merkle_path |-> path]] : path \in CircuitPaths(MembershipLeaf)}

\* The depth guard of generate_constraints fires on the circuit exactly when
\* its path is empty.
GuardOnlyForEmptyPath(c) ==
  /\ c.expected_depth = Len(c.merkle_path)
  /\ generate_constraints(c).err # "none" <=> c.merkle_path = <<>>

\* C27: every circuit build_circuit / build_circuit_v2 returns has
\* expected_depth = merkle_path.len(), so the depth guard of
\* generate_constraints rejects a circuit built from an instance only when
\* its path is empty: the prover's synthesis passes the guard whatever the
\* depth of the proving key is.
C27_BuiltCircuitDepthIsPathLength ==
  /\ (pc = "proved" /\ stmt \in MembershipStatements)
       => \A instance \in SampleInstances :
            /\ GuardOnlyForEmptyPath(membership_build_circuit(instance))
            /\ GuardOnlyForEmptyPath(membership_build_circuit_v2(instance))
  /\ (pc \in {"proved", "verified"} /\ stmt \in MembershipStatements)
       => /\ GuardOnlyForEmptyPath(circuit)
          /\ cs = generate_constraints(circuit)
          /\ circuit.merkle_path = result.val.witness.merkle_path

\* The prover has synthesized the circuit of a two-level path with the
\* proving key of depth 1: the guard did not fire.
C27_Witness ==
  /\ pc = "proved"
  /\ stmt = "membership_v1"
  /\ Len(circuit.merkle_path) = 2
  /\ record.public_inputs.depth = 2
  /\ pk.depth = 1
  /\ cs.err = "none"

(***************************************************************************)
(* Properties of the command-line programs.                                *)
(***************************************************************************)
\* The run was given nothing but --pk-out and --vk-out, and every path can
\* be written.
OnlyKeyPathFlags ==
  /\ \A i \in DOMAIN argv : argv[i][1] \in {"--pk-out", "--vk-out"}
  /\ files.unwritable = {}

\* The proving key was written to the first path and its verifying key to
\* the second.
KeysWritten(pk_out, vk_out) ==
  /\ Len(exit.written) = 2
  /\ exit.written[1][1] = pk_out
  /\ exit.written[1][2].type = "ProvingKey"
  /\ exit.written[2][1] = vk_out
  /\ exit.written[2][2].type = "VerifyingKey"
  /\ exit.written[2][2].key = exit.written[1][2].key

\* C24: every setup_* command given --pk-out P and --vk-out P runs setup,
\* writes the proving key to the first path and the verifying key to the
\* second and exits 0; with either flag missing it exits 1.
C24_SetupTakesPkOutVkOut ==
  (pc = "exited" /\ stmt \in SetupCommands /\ OnlyKeyPathFlags)
    => IF ArgPresent(argv, "--pk-out") /\ ArgPresent(argv, "--vk-out")
         THEN /\ exit.code = 0
              /\ exit.calls = <<"setup">>
              /\ KeysWritten(ArgValue(argv, "--pk-out", NoArg),
                             ArgValue(argv, "--vk-out", NoArg))
         ELSE exit.code = 1 /\ exit.written = <<>>

ProveCommands == {"prove_membership", "prove_continuity", "prove_unlinkability"}

\* Schema validation of an instance file, by the type the file holds.
FileValidation(file) ==
  CASE file.type = "MembershipInstanceBytes" ->
         MembershipInstanceBytes_into_instance(file.value)
    [] file.type = "MembershipInstanceV1Bytes" ->
         MembershipInstanceV1Bytes_into_instance_with_depth(file.value)
    [] file.type = "MembershipInstanceV2Bytes" ->
         MembershipInstanceV2Bytes_into_instance_with_depth(file.value)
    [] file.type = "ContinuityInstanceV1" ->
         ContinuityInstanceV1_into_instance(file.value)
    [] file.type = "ContinuityInstanceV2" ->
         ContinuityInstanceV2_into_instance(file.value)
    [] file.type = "UnlinkabilityInstanceV2" ->
         UnlinkabilityInstanceV2_into_instance(file.value)

\* The file named by a path argument of the run, if it can be read.
FileAt(flag) ==
  IF ArgValue(argv, flag, NoArg) \in DOMAIN files.contents
    THEN files.contents[ArgValue(argv, flag, NoArg)]
    ELSE Err("open")

InstanceRejected == FileAt("--instance").ok /\ ~FileValidation(FileAt("--instance").val).ok

InstanceAccepted == FileAt("--instance").ok /\ FileValidation(FileAt("--instance").val).ok

\* C23: in every prove_* command the instance is validated before the prover
\* is called: on an instance that validation rejects the run exits 1 without
\* calling the prover and without writing a file, and a proof is written (to
\* the --proof-out path, with exit 0) only after validation accepted the
\* instance and the prover was called after it.
C23_ValidationBeforeProver ==
  (pc = "exited" /\ stmt \in ProveCommands)
    => /\ exit.calls \in {<<>>, <<"into_instance">>, <<"into_instance", "prove">>}
       /\ InstanceRejected
            => exit.code = 1 /\ exit.calls \in {<<>>, <<"into_instance">>}
               /\ exit.written = <<>>
       /\ exit.written # <<>>
            => /\ InstanceAccepted
               /\ exit.calls = <<"into_instance", "prove">>
               /\ exit.code = 0
               /\ Len(exit.written) = 1
               /\ exit.written[1][1] = ArgValue(argv, "--proof-out", NoArg)
               /\ exit.written[1][2].type = "Proof"
       /\ exit.code = 0 => exit.written # <<>>

\* A run that read both files, had the instance rejected and stopped there.
C23_Witness ==
  /\ pc = "exited"
  /\ stmt \in ProveCommands
  /\ InstanceRejected
  /\ exit.calls = <<"into_instance">>
  /\ exit.code = 1
  /\ exit.written = <<>>

VerifyCommands == {"verify_membership", "verify_continuity", "verify_unlinkability"}

\* What the Groth16 verifier returns for a key, a public-inputs file that
\* passes validation and a proof, by the type the public-inputs file holds.
VerifierOn(key, file, prf) ==
  CASE file.type = "MembershipPublicInputsBytes" ->
         verify_membership(
           key, MembershipPublicInputsBytes_into_public_inputs(file.value).val, prf)
    [] file.type = "MembershipPublicInputsV1Bytes" ->
         verify_membership(
           key,
           MembershipPublicInputsV1Bytes_into_public_inputs_with_depth(
             file.value).val.inputs,
           prf)
    [] file.type = "MembershipPublicInputsV2Bytes" ->
         verify_membership_v2(
           key,
           MembershipPublicInputsV2Bytes_into_public_inputs_with_depth(
             file.value).val.inputs,
           prf)
    [] file.type = "ContinuityPublicInputsV1" ->
         verify_continuity(
           key, ContinuityPublicInputsV1_into_public_inputs(file.value).val, prf)
    [] file.type = "ContinuityPublicInputsV2" ->
         verify_continuity_v2(
           key, ContinuityPublicInputsV2_into_public_inputs(file.value).val, prf)
    [] file.type = "UnlinkabilityPublicInputsV2" ->
         verify_unlinkability_v2(
           key, UnlinkabilityPublicInputsV2_into_public_inputs(file.value).val, prf)

\* Schema validation of a public-inputs file, by the type the file holds.
PublicInputsValidation(file) ==
  CASE file.type = "MembershipPublicInputsBytes" ->
         MembershipPublicInputsBytes_into_public_inputs(file.value)
    [] file.type = "MembershipPublicInputsV1Bytes" ->
         MembershipPublicInputsV1Bytes_into_public_inputs_with_depth(file.value)
    [] file.type = "MembershipPublicInputsV2Bytes" ->
         MembershipPublicInputsV2Bytes_into_public_inputs_with_depth(file.value)
    [] file.type = "ContinuityPublicInputsV1" ->
         ContinuityPublicInputsV1_into_public_inputs(file.value)
    [] file.type = "ContinuityPublicInputsV2" ->
         ContinuityPublicInputsV2_into_public_inputs(file.value)
    [] file.type = "UnlinkabilityPublicInputsV2" ->
         UnlinkabilityPublicInputsV2_into_public_inputs(file.value)

\* Some input of the run cannot be used: a file is unreadable, or the public
\* inputs fail validation.
CorruptInput ==
  \/ ~FileAt("--vk").ok
  \/ ~FileAt("--proof").ok
  \/ ~FileAt("--public-inputs").ok
  \/ ~PublicInputsValidation(FileAt("--public-inputs").val).ok

\* The run called the verifier, which returned `answer`.
VerifierReturned(answer) ==
  /\ exit.calls = <<"into_public_inputs", "verify">>
  /\ ~CorruptInput
  /\ VerifierOn(FileAt("--vk").val.key, FileAt("--public-inputs").val,
                FileAt("--proof").val.value) = answer

\* C22: a verify_* run ends with exit 0, 1 or 2: exit 0 (printing `verified`)
\* exactly when the verifier was called and returned true, exit 2 exactly
\* when it was called and returned false, exit 1 on every other path; a
\* corrupt input is never reported with exit 2 and `verified` is printed only
\* with exit 0.
C22_VerifyExitCodes ==
  (pc = "exited" /\ stmt \in VerifyCommands)
    => /\ exit.code \in {0, 1, 2}
       /\ exit.code = 0 <=> VerifierReturned(Ok(TRUE))
       /\ exit.code = 2 <=> VerifierReturned(Ok(FALSE))
       /\ exit.stdout = <<"verified">> <=> exit.code = 0
       /\ exit.stdout \in {<<>>, <<"verified">>}
       /\ CorruptInput => exit.code = 1
       /\ exit.written = <<>>

\* A run in which the verifier refused the proof.
C22_Witness ==
  /\ pc = "exited"
  /\ stmt \in VerifyCommands
  /\ VerifierReturned(Ok(FALSE))
  /\ exit.code = 2

\* The run is verify_membership --schema v1 or v2 on a public-inputs file of
\* that schema whose depth field is not zero.
DepthDeclared ==
  /\ stmt = "verify_membership"
  /\ ArgPresent(argv, "--public-inputs")
  /\ FileAt("--public-inputs").ok
  /\ \/ /\ ArgValue(argv, "--schema", "v0") = "v1"
        /\ FileAt("--public-inputs").val.type = "MembershipPublicInputsV1Bytes"
     \/ /\ ArgValue(argv, "--schema", "v0") = "v2"
        /\ FileAt("--public-inputs").val.type = "MembershipPublicInputsV2Bytes"
  /\ FileAt("--public-inputs").val.value.depth # 0

\* The same disk with another depth in the public-inputs file.
WithDeclaredDepth(d) ==
  [files EXCEPT
     !.contents[ArgValue(argv, "--public-inputs", NoArg)].val.value.depth = d]

\* The depths a membership key was set up for.
KeyDepthsOf(key) ==
  {d \in 1..(MaxDepth + 1) :
     key \in {setup_membership_with_depth(d).val,
              setup_membership_with_depth_v2(d).val}}

\* C28: verify_membership --schema v1 / v2 ends the same way whatever non-zero
\* depth the public-inputs file declares: with the key, the proof and every
\* other field unchanged, the run on the file with any other non-zero depth
\* has the same exit code, output and calls.
C28_DeclaredDepthIgnored ==
  (pc = "exited" /\ DepthDeclared)
    => \A d \in 1..(MaxDepth + 2) :
         verify_membership_main(argv, WithDeclaredDepth(d)) = exit

\* A proof is reported verified although the public inputs declare a depth
\* the verifying key was not set up for.
C28_Witness ==
  /\ pc = "exited"
  /\ DepthDeclared
  /\ exit.code = 0
  /\ FileAt("--vk").ok
  /\ KeyDepthsOf(FileAt("--vk").val.key) # {}
  /\ FileAt("--public-inputs").val.value.depth
       \notin KeyDepthsOf(FileAt("--vk").val.key)

\* The argument list gives every flag a value, a schema among v0, v1, v2 if
\* any, and a number as the depth if any.
SchemaGiven == ArgValue(argv, "--schema", "v0")

DepthGiven == ArgValue(argv, "--depth", NoArg)

WellFormedDepthArgs ==
  /\ \A i \in DOMAIN argv : argv[i][2] # NoArg
  /\ SchemaGiven \in {"v0", "v1", "v2"}
  /\ ArgPresent(argv, "--depth") => ParseUsize(DepthGiven).some

\* The depth of a written membership instance file: the length of its path.
WrittenDepth(file) ==
  IF file.type = "MembershipInstanceBytes"
    THEN Len(file.value.witness.merkle_path)
    ELSE Len(file.value.witness.merkle_siblings)

\* The depth a written membership key was set up for: the number of
\* direction witnesses of its circuit.
WrittenKeyDepth(file) ==
  Cardinality({i \in DOMAIN file.key.vars : file.key.vars[i] = <<"witness", "is_left">>})

\* C29: without --depth, setup_membership sets up depth MERKLE_DEPTH = 1 for
\* every schema while make_membership_instance builds depth 16 for v1 and v2;
\* for v0 make_membership_instance builds depth 1 whatever --depth says; it
\* rejects --depth 0 for v1 / v2 while parsing (exit 1, nothing built), where
\* setup_membership parses it and fails inside setup.
C29_DefaultDepths ==
  /\ MERKLE_DEPTH = 1 /\ DEFAULT_V1_DEPTH = 16
  /\ (pc = "exited" /\ stmt = "setup_membership" /\ WellFormedDepthArgs
      /\ ArgPresent(argv, "--pk-out") /\ ArgPresent(argv, "--vk-out"))
       => /\ exit.calls = <<"setup">>
          /\ setup_membership_parse_args(argv).val.depth
               = IF ArgPresent(argv, "--depth") THEN ParseUsize(DepthGiven).val
                 ELSE MERKLE_DEPTH
          /\ (~ArgPresent(argv, "--depth") /\ files.unwritable = {})
               => /\ exit.code = 0
                  /\ WrittenKeyDepth(exit.written[1][2]) = MERKLE_DEPTH
          /\ DepthGiven = "0" => exit.code = 1 /\ exit.written = <<>>
  /\ (pc = "exited" /\ stmt = "make_membership_instance" /\ WellFormedDepthArgs)
       => IF SchemaGiven = "v0"
            THEN /\ make_membership_instance_parse_args(argv).val.depth = MERKLE_DEPTH
                 /\ exit.calls = <<"build">>
                 /\ exit.written # <<>>
                      => WrittenDepth(exit.written[1][2]) = MERKLE_DEPTH
          ELSE IF DepthGiven = "0"
            THEN /\ ~make_membership_instance_parse_args(argv).ok
                 /\ exit.code = 1 /\ exit.calls = <<>> /\ exit.written = <<>>
          ELSE /\ make_membership_instance_parse_args(argv).val.depth
                    = IF ArgPresent(argv, "--depth")
                        THEN ParseUsize(DepthGiven).val ELSE DEFAULT_V1_DEPTH
               /\ exit.calls = <<"build">>
               /\ exit.written # <<>>
                    => WrittenDepth(exit.written[1][2])
                         = IF ArgPresent(argv, "--depth")
                             THEN ParseUsize(DepthGiven).val ELSE DEFAULT_V1_DEPTH

\* make_membership_instance --schema v1 or v2 without --depth wrote an
\* instance of depth 16.
C29_Witness ==
  /\ pc = "exited"
  /\ stmt = "make_membership_instance"
  /\ WellFormedDepthArgs
  /\ SchemaGiven \in {"v1", "v2"}
  /\ ~ArgPresent(argv, "--depth")
  /\ exit.code = 0
  /\ WrittenDepth(exit.written[1][2]) = 16

\* The run is given every flag in `required` with a value, all files can be
\* written, and the argument list is otherwise well formed.
CompleteArgs(required) ==
  /\ \A flag \in required : ArgPresent(argv, flag)
  /\ \A i \in DOMAIN argv : argv[i][2] # NoArg
  /\ ArgPresent(argv, "--depth") => ParseUsize(DepthGiven).some /\ DepthGiven # "0"
  /\ files.unwritable = {}

SchemaFlag == ArgValue(argv, "--schema", NoArg)

\* The continuity commands have no --depth flag.
NoDepthFlag == \A i \in DOMAIN argv : argv[i][1] # "--depth"

\* The instance file of the run holds a v2 record.
V2InstanceFile ==
  /\ FileAt("--instance").ok
  /\ FileAt("--instance").val.type
       \in {"MembershipInstanceV2Bytes", "ContinuityInstanceV2"}

\* C30: with --schema v2, prove_membership, prove_continuity and
\* verify_continuity exit 1 before reading a file (prove_continuity and
\* verify_continuity do so for every schema but v1, prove_membership runs
\* with v0 and v1), while setup_membership,
\* make_membership_instance, setup_continuity and make_continuity_instance
\* run to exit 0 and verify_membership reaches the verifier; no prove_membership
\* or prove_continuity run on a v2 instance file writes a proof.
C30_SchemaValuesDiffer ==
  pc = "exited"
    => /\ (stmt = "prove_membership" /\ SchemaFlag = "v2")
            => exit = Exit(1, <<>>, <<>>, <<>>)
       /\ (stmt \in {"prove_continuity", "verify_continuity"}
           /\ ArgPresent(argv, "--schema") /\ SchemaFlag # "v1")
            => exit = Exit(1, <<>>, <<>>, <<>>)
       /\ (stmt = "prove_membership" /\ SchemaFlag \in {"v0", "v1"}
           /\ CompleteArgs({"--pk", "--instance", "--proof-out"})
           /\ FileAt("--pk").ok /\ InstanceAccepted
           /\ FileAt("--instance").val.type
                = InstanceType("membership_" \o SchemaFlag))
            => exit.code = 0
       /\ (stmt = "prove_continuity" /\ SchemaFlag \in {"v1", NoArg}
           /\ CompleteArgs({"--pk", "--instance", "--proof-out"})
           /\ FileAt("--pk").ok /\ InstanceAccepted
           /\ FileAt("--instance").val.type = "ContinuityInstanceV1")
            => exit.code = 0
       /\ (stmt = "verify_continuity" /\ SchemaFlag \in {"v1", NoArg}
           /\ CompleteArgs({"--vk", "--public-inputs", "--proof"})
           /\ ~CorruptInput
           /\ FileAt("--public-inputs").val.type = "ContinuityPublicInputsV1")
            => exit.calls = <<"into_public_inputs", "verify">>
       /\ (stmt = "setup_membership" /\ SchemaFlag = "v2"
           /\ CompleteArgs({"--pk-out", "--vk-out"}))
            => exit.code = 0 /\ exit.written[1][2].key.kind = "MembershipCircuitV2"
       /\ (stmt = "make_membership_instance" /\ SchemaFlag = "v2" /\ CompleteArgs({}))
            => /\ exit.code = 0
               /\ exit.written[1][2].type = "MembershipInstanceV2Bytes"
       /\ (stmt = "verify_membership" /\ SchemaFlag = "v2"
           /\ CompleteArgs({"--vk", "--public-inputs", "--proof"})
           /\ ~CorruptInput
           /\ FileAt("--public-inputs").val.type = "MembershipPublicInputsV2Bytes")
            => exit.calls = <<"into_public_inputs", "verify">>
       /\ (stmt = "setup_continuity" /\ SchemaFlag = "v2"
           /\ CompleteArgs({"--out-pk", "--out-vk"}) /\ NoDepthFlag)
            => exit.code = 0 /\ exit.written[1][2].key.kind = "ContinuityCircuitV2"
       /\ (stmt = "make_continuity_instance" /\ SchemaFlag = "v2" /\ CompleteArgs({})
           /\ NoDepthFlag)
            => /\ exit.code = 0
               /\ exit.written[1][2].type = "ContinuityInstanceV2"
       /\ (stmt \in {"prove_membership", "prove_continuity"} /\ V2InstanceFile)
            => exit.code = 1 /\ exit.written = <<>>

\* prove_membership --schema v2 on a valid v2 instance file and a readable
\* key exits 1 without validating anything.
C30_Witness ==
  /\ pc = "exited"
  /\ stmt = "prove_membership"
  /\ SchemaFlag = "v2"
  /\ CompleteArgs({"--pk", "--instance", "--proof-out"})
  /\ FileAt("--pk").ok
  /\ V2InstanceFile
  /\ InstanceAccepted
  /\ exit = Exit(1, <<>>, <<>>, <<>>)

====
